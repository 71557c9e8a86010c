------------------------- MODULE PaymentOrchestrator -------------------------
(***************************************************************************)
(* The policy engine of policy.py: PaymentOrchestrator with its            *)
(* IdempotencyStore and its AuditLog.                                      *)
(*                                                                         *)
(* Calls are served one at a time.  The one call that is interrupted is    *)
(* execute(), which hands control to the settlement adapter; while the     *)
(* adapter works, time passes and the process may crash.  A call the code  *)
(* refuses without any effect is a step that changes nothing and has no    *)
(* action here; a call it refuses AFTER an effect has one.                 *)
(*                                                                         *)
(* Every write to disk may fail.  The parameter io of an action says which *)
(* of the call's writes fails, and the action leaves exactly the effects   *)
(* the code made before the exception.  A crash in the middle of a call is *)
(* such a failure followed by Crash, because Crash drops all memory.       *)
(***************************************************************************)
EXTENDS Naturals, Sequences, PaymentStates

CONSTANTS
    Intents,         \* intent ids (an id determines its intent)
    Quotes,          \* quote ids
    Tokens,          \* single-use send tokens an adapter prepares with
    Refs,            \* settlement references of the rail
    Rails, AdapterRail, RailAllowlist,
    RecipientAllowed,              \* intents whose recipient is allowlisted
    MaxFee, Amount, IntentExpires, \* fields of an intent
    QuoteIntent, QuoteFee, QuoteExpires, \* fields of a quote
    Fees,            \* fees an adapter may prepare with
    Amounts,         \* amounts a receipt may state
    None,            \* Python's None
    MaxTime,         \* bound of the clock
    MaxFaults        \* bound on failed writes and crashes

ASSUME IntentAssumption ==
    /\ MaxFee \in [Intents -> Nat]
    /\ Amount \in [Intents -> Nat]
    /\ IntentExpires \in [Intents -> Nat]
    /\ RecipientAllowed \subseteq Intents

ASSUME QuoteAssumption ==
    /\ QuoteIntent \in [Quotes -> Intents]
    /\ QuoteFee \in [Quotes -> Nat]
    /\ QuoteExpires \in [Quotes -> Nat]

ASSUME BoundAssumption ==
    /\ Fees \subseteq Nat
    /\ Amounts \subseteq Nat
    /\ MaxTime \in Nat \ {0}
    /\ MaxFaults \in Nat

ASSUME NoneAssumption ==
    None \notin Intents \cup Quotes \cup Refs \cup (Quotes \X Tokens)
                \cup {"manual", "COMPLETE", "PENDING", "UNKNOWN"}

VARIABLES
    rec,     \* _intents: the record of each intent, NoRecord if untracked
    order,   \* the insertion order of the dictionary _intents
    store,   \* the IdempotencyStore in memory
    disk,    \* the IdempotencyStore file
    audit,   \* the entries of the AuditLog file, without their seq and ts
    frame,   \* the execute() call in progress, if any
    calls,   \* history: the adapter.execute() calls ever made
    clock,   \* seconds since an epoch that lies in the past: never 0
    faults   \* failed writes and crashes so far

vars == <<rec, order, store, disk, audit, frame, calls, clock, faults>>

-----------------------------------------------------------------------------
(* Data *)

\* The prepared hash is a digest of the prepared payload, which holds the
\* receive instruction of the quote and the token: it is as good as the pair.
Hashes == Quotes \X Tokens

UnhashedPayload(q, token) == q
PreparedHash(q, token) == <<q, token>>

Triples == Intents \X Quotes \X Hashes

\* What an approval adds to the intent it names.
Approvals == Quotes \X Hashes

\* confirm_settled binds the reference "manual:<intent_id>".
Manual == "manual"

NoRecord == [state |-> "UNTRACKED", quote |-> None, prepared |-> None,
             approval |-> None, receipt |-> None, reconciliation |-> None]

Statuses == {"COMPLETE", "PENDING", "UNKNOWN"}

\* IntentRecord.  quote_expires_at always is the expiry of the current quote.
Record == [state : PaymentState \cup {"UNTRACKED"},
           quote : Quotes \cup {None},
           prepared : Hashes \cup {None},
           approval : Approvals \cup {None},
           receipt : Refs \cup {None},
           reconciliation : Statuses \cup {None}]

Store == [intents : SUBSET Intents,
          approvals : SUBSET Triples,
          receipts : [Intents -> Refs \cup {Manual, None}]]

EmptyStore == [intents |-> {}, approvals |-> {},
               receipts |-> [i \in Intents |-> None]]

Events == {"submit", "quote_received", "prepared", "approved", "executing",
           "adapter_ambiguous", "adapter_error", "settled", "receipt_mismatch",
           "receipt_verification_failed", "receipt_confirmed", "confirm_settled",
           "settlement_reconciled", "cancelled", "rejected",
           "expired_during_execution", "recovered_executing"}

Frames == [intent : Intents, sent : BOOLEAN]

NoFrame == [intent |-> None, sent |-> FALSE]

\* One call of adapter.execute(): for which intent, with which prepared hash.
Call == [intent : Intents, hash : Hashes \cup {None}]

Tracked == {i \in Intents : rec[i].state # "UNTRACKED"}

TypeOK ==
    /\ rec \in [Intents -> Record]
    /\ order \in Seq(Intents)
    /\ store \in Store
    /\ disk \in Store
    /\ audit \in SUBSET (Events \X Intents)
    /\ frame \in Frames \cup {NoFrame}
    /\ calls \in Seq(Call)
    /\ clock \in 1 .. MaxTime
    /\ faults \in 0 .. MaxFaults

Init ==
    /\ rec = [i \in Intents |-> NoRecord]
    /\ order = <<>>
    /\ store = EmptyStore
    /\ disk = EmptyStore
    /\ audit = {}
    /\ frame = NoFrame
    /\ calls = <<>>
    /\ clock = 1
    /\ faults = 0

-----------------------------------------------------------------------------
(* Helpers of the calls *)

\* Which write of a call fails: none, the store's, or the audit log's.
IO == {"ok", "save_fails", "log_fails"}

Fault(io) ==
    /\ io # "ok" => faults < MaxFaults
    /\ faults' = IF io = "ok" THEN faults ELSE faults + 1

\* A call is served only while no execute() waits for its adapter.
Idle == frame = NoFrame

\* IdempotencyStore._save, called with the store already changed in memory:
\* it writes all three collections, or raises and leaves the file alone.
Save(s, io) ==
    /\ store' = s
    /\ disk' = IF io = "save_fails" THEN disk ELSE s

\* AuditLog.append, the last statement of a call; not reached when Save raised.
Log(event, i, io) ==
    audit' = IF io = "ok" THEN audit \cup {<<event, i>>} ELSE audit

\* The records after a Save: the code changes a record only once the save that
\* precedes the change has returned.
SwappedSaveOrder(io, new) == new
AfterSave(io, new) == IF io = "save_fails" THEN rec ELSE new

NoStoreChange == UNCHANGED <<store, disk>>

SetState(i, trigger) ==
    rec' = [rec EXCEPT ![i].state = NewState(@, trigger)]

\* IdempotencyStore.has_intent.
KnownInMemory(i) == i \in Tracked
HasIntent(i) == i \in store.intents

Expired(deadline) == deadline # 0 /\ clock > deadline

\* _find_by_state: the first tracked intent, in insertion order, in state s.
FindByState(i, s) ==
    \E n \in DOMAIN order :
        /\ order[n] = i
        /\ rec[i].state = s
        /\ \A m \in 1 .. (n - 1) : rec[order[m]].state # s

-----------------------------------------------------------------------------
(* The calls of the life cycle *)

\* submit(intent).  The record enters memory before the id is saved.
Submit(i, io) ==
    /\ Idle
    /\ ~HasIntent(i)
    /\ ~Expired(IntentExpires[i])
    /\ i \in RecipientAllowed
    /\ TransitionOk("DRAFT", "submit")
    /\ rec' = [rec EXCEPT ![i] = [NoRecord EXCEPT !.state = NewState("DRAFT", "submit")]]
    /\ order' = IF i \in Tracked THEN order ELSE Append(order, i)
    /\ Save([store EXCEPT !.intents = @ \cup {i}], io)
    /\ Log("submit", i, io)
    /\ Fault(io)
    /\ UNCHANGED <<frame, calls, clock>>

\* What receive_quote checks before it stores the quote in the record.
QuoteAdmissible(q) ==
    /\ Idle
    /\ QuoteIntent[q] \in Tracked
    /\ QuoteFee[q] <= MaxFee[QuoteIntent[q]]
    /\ clock <= QuoteExpires[q]

\* receive_quote(quote) of an intent that waits for one.
ReceiveQuote(q, io) ==
    LET i == QuoteIntent[q] IN
    /\ QuoteAdmissible(q)
    /\ TransitionOk(rec[i].state, "quote_received")
    /\ rec' = [rec EXCEPT ![i].quote = q,
                          ![i].state = NewState(@, "quote_received")]
    /\ Log("quote_received", i, io)
    /\ Fault(io)
    /\ NoStoreChange
    /\ UNCHANGED <<order, frame, calls, clock>>

\* receive_quote(quote) in any other state raises, but only after the quote of
\* the record has been replaced.
ReceiveQuoteRefused(q) ==
    LET i == QuoteIntent[q] IN
    /\ QuoteAdmissible(q)
    /\ ~TransitionOk(rec[i].state, "quote_received")
    /\ rec' = [rec EXCEPT ![i].quote = q]
    /\ UNCHANGED <<order, store, disk, audit, frame, calls, clock, faults>>

\* prepare(), with what the adapter's prepare() returned.  An AdapterError and
\* a refused fee or rail leave everything as it was.
Prepare(i, token, fee, rail, io) ==
    /\ Idle
    /\ FindByState(i, "QUOTED")
    /\ rec[i].quote # None
    /\ ~Expired(QuoteExpires[rec[i].quote])
    /\ AdapterRail \in RailAllowlist
    /\ TransitionOk(rec[i].state, "prepared")
    /\ fee <= MaxFee[i]
    /\ rail \in RailAllowlist
    /\ rec' = [rec EXCEPT ![i].prepared = PreparedHash(rec[i].quote, token),
                          ![i].state = NewState(@, "prepared")]
    /\ Log("prepared", i, io)
    /\ Fault(io)
    /\ NoStoreChange
    /\ UNCHANGED <<order, frame, calls, clock>>

\* approve(approval) of the triple (i, q, h).  When the save fails the triple
\* stays in memory, the record stays PREPARED, and nothing is logged.
Approve(i, q, h, io) ==
    /\ Idle
    /\ i \in Tracked
    /\ rec[i].quote = q
    /\ rec[i].prepared = h
    /\ <<i, q, h>> \notin store.approvals
    /\ rec[i].state = "PREPARED"
    /\ Save([store EXCEPT !.approvals = @ \cup {<<i, q, h>>}], io)
    /\ rec' = AfterSave(io, [rec EXCEPT ![i].approval = <<q, h>>,
                                        ![i].state = NewState(@, "approved")])
    /\ Log("approved", i, io)
    /\ Fault(io)
    /\ UNCHANGED <<order, frame, calls, clock>>

-----------------------------------------------------------------------------
(* execute(), up to, during and after the adapter's work *)

\* The adapter is called only if the log entry before the call was written.
EnterUnlogged(i, io) == frame' = [intent |-> i, sent |-> FALSE]
EnterAdapter(i, io) ==
    frame' = IF io = "ok" THEN [intent |-> i, sent |-> FALSE] ELSE frame

\* Up to the adapter call.  The intent is EXECUTING, and the log says so, before
\* the adapter is touched; when the log cannot be written the adapter is not
\* called and the intent stays EXECUTING.
Execute(i, io) ==
    /\ Idle
    /\ FindByState(i, "APPROVED")
    /\ rec[i].prepared # None
    /\ TransitionOk(rec[i].state, "executing")
    /\ SetState(i, "executing")
    /\ Log("executing", i, io)
    /\ EnterAdapter(i, io)
    /\ Fault(io)
    /\ NoStoreChange
    /\ UNCHANGED <<order, calls, clock>>

\* adapter.execute(prepared_payload, prepared_hash) is entered.
AdapterExecute(i) ==
    /\ frame = [intent |-> i, sent |-> FALSE]
    /\ frame' = [intent |-> i, sent |-> TRUE]
    /\ calls' = Append(calls, [intent |-> i, hash |-> rec[i].prepared])
    /\ UNCHANGED <<rec, order, store, disk, audit, clock, faults>>

Returning(i) ==
    /\ frame = [intent |-> i, sent |-> TRUE]
    /\ frame' = NoFrame

\* The adapter reports success: the receipt is saved, then the intent settles.
ExecuteSettled(i, ref, io) ==
    /\ Returning(i)
    /\ TransitionOk(rec[i].state, "settled")
    /\ Save([store EXCEPT !.receipts[i] = ref], io)
    /\ rec' = AfterSave(io, [rec EXCEPT ![i].receipt = ref,
                                        ![i].state = NewState(@, "settled")])
    /\ Log("settled", i, io)
    /\ Fault(io)
    /\ UNCHANGED <<order, calls, clock>>

\* Where a failed execution leaves the intent; AmbiguousResult and AdapterError
\* are treated alike, and the state is assigned without the transition table.
FailedOnError(event) ==
    IF event = "adapter_error" THEN "FAILED" ELSE "RECONCILIATION_REQUIRED"
RetryWhenAmbiguous(event) ==
    IF event = "adapter_ambiguous" THEN "APPROVED" ELSE "RECONCILIATION_REQUIRED"
AfterFailure(event) == "RECONCILIATION_REQUIRED"

\* The adapter raises AmbiguousResult or AdapterError.
ExecuteFailed(i, event, io) ==
    /\ Returning(i)
    /\ rec' = [rec EXCEPT ![i].state = AfterFailure(event)]
    /\ Log(event, i, io)
    /\ Fault(io)
    /\ NoStoreChange
    /\ UNCHANGED <<order, calls, clock>>

\* The adapter raises anything else: no handler runs, the intent stays EXECUTING.
ExecuteRaised(i) ==
    /\ Returning(i)
    /\ UNCHANGED <<rec, order, store, disk, audit, calls, clock, faults>>

-----------------------------------------------------------------------------
(* Receipts and reconciliation *)

\* The gates of receive_receipt before the amount is compared.
ReceiptWhileExecuting(i) ==
    /\ Idle
    /\ rec[i].state = "EXECUTING"
    /\ store.receipts[i] = None
ReceiptAdmissible(i) ==
    /\ Idle
    /\ rec[i].state \in {"EXECUTING", "RECONCILIATION_REQUIRED"}
    /\ store.receipts[i] = None

\* receive_receipt with a wrong amount: logged and refused.
ReceiptMismatch(i, amount, io) ==
    /\ ReceiptAdmissible(i)
    /\ amount # Amount[i]
    /\ Log("receipt_mismatch", i, io)
    /\ Fault(io)
    /\ NoStoreChange
    /\ UNCHANGED <<rec, order, frame, calls, clock>>

\* receive_receipt that the adapter does not find among the sender's sends.
ReceiptUnverified(i, q, amount, io) ==
    /\ ReceiptAdmissible(i)
    /\ amount = Amount[i]
    /\ rec[i].quote = q
    /\ Log("receipt_verification_failed", i, io)
    /\ Fault(io)
    /\ NoStoreChange
    /\ UNCHANGED <<rec, order, frame, calls, clock>>

\* receive_receipt that is verified: the binding is saved before the intent
\* settles.
ReceiptConfirmed(i, q, amount, ref, io) ==
    /\ ReceiptAdmissible(i)
    /\ amount = Amount[i]
    /\ rec[i].quote = q
    /\ TransitionOk(rec[i].state, "receipt_received")
    /\ Save([store EXCEPT !.receipts[i] = ref], io)
    /\ rec' = AfterSave(io, [rec EXCEPT ![i].receipt = ref,
                                        ![i].state = NewState(@, "receipt_received")])
    /\ Log("receipt_confirmed", i, io)
    /\ Fault(io)
    /\ UNCHANGED <<order, frame, calls, clock>>

\* confirm_settled(intent_id), the manual resolution.
ConfirmSettled(i, io) ==
    /\ Idle
    /\ TransitionOk(rec[i].state, "confirm_settled")
    /\ Save([store EXCEPT !.receipts[i] = Manual], io)
    /\ rec' = AfterSave(io, [rec EXCEPT ![i].state = NewState(@, "confirm_settled")])
    /\ Log("confirm_settled", i, io)
    /\ Fault(io)
    /\ UNCHANGED <<order, frame, calls, clock>>

\* reconcile_settlement(intent_id): evidence is stored, the state is not moved.
\* An adapter that raises counts as UNKNOWN.
ReconcileSettlement(i, status, io) ==
    /\ Idle
    /\ rec[i].state = "RECONCILIATION_REQUIRED"
    /\ rec[i].prepared # None
    /\ rec' = [rec EXCEPT ![i].reconciliation = status]
    /\ Log("settlement_reconciled", i, io)
    /\ Fault(io)
    /\ NoStoreChange
    /\ UNCHANGED <<order, frame, calls, clock>>

-----------------------------------------------------------------------------
(* Closing and expiry *)

Cancel(i, io) ==
    /\ Idle
    /\ TransitionOk(rec[i].state, "cancel")
    /\ SetState(i, "cancel")
    /\ Log("cancelled", i, io)
    /\ Fault(io)
    /\ NoStoreChange
    /\ UNCHANGED <<order, frame, calls, clock>>

Reject(i, io) ==
    /\ Idle
    /\ TransitionOk(rec[i].state, "rejected")
    /\ SetState(i, "rejected")
    /\ Log("rejected", i, io)
    /\ Fault(io)
    /\ NoStoreChange
    /\ UNCHANGED <<order, frame, calls, clock>>

\* The intents check_expired moves when asked about the intents in checked.
ExpiredDuringExecution(checked) ==
    {i \in checked : rec[i].state = "EXECUTING" /\ Expired(IntentExpires[i])}

\* check_expired moves and logs them one by one, so a log that cannot be written
\* stops the sweep: moved and logged are what was done until then.
SweepTo(moved, logged) ==
    /\ rec' = [i \in Intents |->
                 IF i \in moved
                 THEN [rec[i] EXCEPT !.state = NewState(@, "expired")]
                 ELSE rec[i]]
    /\ audit' = audit \cup ({"expired_during_execution"} \X logged)
    /\ NoStoreChange
    /\ UNCHANGED <<order, frame, calls, clock>>

CheckExpired(checked) ==
    /\ Idle
    /\ ExpiredDuringExecution(checked) # {}
    /\ SweepTo(ExpiredDuringExecution(checked), ExpiredDuringExecution(checked))
    /\ UNCHANGED faults

\* The sweep stops at the intent whose entry cannot be logged.
CheckExpiredLogFails(checked, n) ==
    LET expired == ExpiredDuringExecution(checked)
        before  == {order[m] : m \in 1 .. (n - 1)}
    IN  /\ Idle
        /\ order[n] \in expired
        /\ SweepTo(expired \cap (before \cup {order[n]}), expired \cap before)
        /\ Fault("log_fails")

-----------------------------------------------------------------------------
(* The environment *)

\* IdempotencyStore._load.
LoadedWithoutReceipts == [disk EXCEPT !.receipts = [i \in Intents |-> None]]
Loaded == disk

\* The process dies and a new orchestrator is constructed on the same files:
\* the store is loaded, the records are gone.
Crash ==
    /\ Fault("crash")
    /\ rec' = [i \in Intents |-> NoRecord]
    /\ order' = <<>>
    /\ store' = Loaded
    /\ frame' = NoFrame
    /\ UNCHANGED <<disk, audit, calls, clock>>

Tick ==
    /\ clock < MaxTime
    /\ clock' = clock + 1
    /\ UNCHANGED <<rec, order, store, disk, audit, frame, calls, faults>>

LogIO == {"ok", "log_fails"}

IntentStep(i) ==
    \/ \E io \in IO :
         \/ Submit(i, io)
         \/ \E q \in Quotes, h \in Hashes : Approve(i, q, h, io)
         \/ \E ref \in Refs : ExecuteSettled(i, ref, io)
         \/ \E q \in Quotes, amount \in Amounts, ref \in Refs :
              ReceiptConfirmed(i, q, amount, ref, io)
         \/ ConfirmSettled(i, io)
    \/ \E io \in LogIO :
         \/ \E token \in Tokens, fee \in Fees, rail \in Rails :
              Prepare(i, token, fee, rail, io)
         \/ Execute(i, io)
         \/ \E event \in {"adapter_ambiguous", "adapter_error"} :
              ExecuteFailed(i, event, io)
         \/ \E amount \in Amounts : ReceiptMismatch(i, amount, io)
         \/ \E q \in Quotes, amount \in Amounts : ReceiptUnverified(i, q, amount, io)
         \/ \E status \in Statuses : ReconcileSettlement(i, status, io)
         \/ Cancel(i, io)
         \/ Reject(i, io)
    \/ AdapterExecute(i)
    \/ ExecuteRaised(i)

Next ==
    \/ \E i \in Intents : IntentStep(i)
    \/ \E q \in Quotes :
         \/ \E io \in LogIO : ReceiveQuote(q, io)
         \/ ReceiveQuoteRefused(q)
    \/ \E checked \in SUBSET Intents : CheckExpired(checked)
    \/ \E checked \in SUBSET Intents, n \in DOMAIN order : CheckExpiredLogFails(checked, n)
    \/ Crash
    \/ Tick

Spec == Init /\ [][Next]_vars

-----------------------------------------------------------------------------
(* What the orchestrator implements *)

\* How far an intent has got, in the words of PaymentContract.  An intent without
\* a record is forgotten if replay protection on disk knows it, else it is fresh.
Phase(i) ==
    CASE rec[i].state \in {"EXECUTING", "RECONCILIATION_REQUIRED"} -> "committed"
      [] rec[i].state = "SETTLED" -> "settled"
      [] rec[i].state \in TERMINAL_STATES \ {"SETTLED"} -> "closed"
      [] rec[i].state = "UNTRACKED" ->
            IF i \in disk.intents THEN "forgotten" ELSE "fresh"
      [] OTHER -> "open"

Contract == INSTANCE PaymentContract
            WITH phase <- [i \in Intents |-> Phase(i)],
                 released <- [n \in DOMAIN calls |-> calls[n].intent]

-----------------------------------------------------------------------------
(* Properties *)

\* REFINEMENT.  Seen through Phase, every call, crash and failed write is a step
\* the contract allows: one release per intent, only from committed, and no
\* second life for a committed intent.
ImplementsContract == Contract!ContractSpec

\* SAFETY.  adapter.execute() is called at most once for an intent, whatever
\* calls, crashes and failed writes come in between: its docstring says it
\* MUST be called exactly once for a prepared hash and never retried.
DispatchAtMostOnce ==
    \A m, n \in DOMAIN calls : calls[m].intent = calls[n].intent => m = n

\* SAFETY.  Whatever is handed to the adapter carries a human approval of that
\* very intent and prepared hash, and the approval is on disk by then.
ApprovedBeforeDispatch ==
    \A n \in DOMAIN calls :
        \E q \in Quotes : <<calls[n].intent, q, calls[n].hash>> \in disk.approvals

\* SAFETY.  Nothing is handed to the adapter that the audit log does not show as
\* executing, even if the log could not always be written.
AuditedBeforeDispatch ==
    \A n \in DOMAIN calls : <<"executing", calls[n].intent>> \in audit

\* SAFETY.  An intent cannot appear settled without a durable receipt binding.
SettledIsDurable ==
    \A i \in Intents : rec[i].state = "SETTLED" => disk.receipts[i] # None

\* SAFETY.  An intent reported as closed without payment was never handed to
\* the adapter: EXECUTING can only end in settlement or reconciliation.
ClosedWithoutDispatch ==
    \A i \in Intents :
        rec[i].state \in TERMINAL_STATES \ {"SETTLED"}
            => \A n \in DOMAIN calls : calls[n].intent # i

\* ACTION.  Replay protection on disk only grows: no save, load or restart loses
\* an intent id, an approved triple or the fact that a receipt was bound.
DiskOnlyGrows ==
    [][ /\ disk.intents \subseteq disk'.intents
        /\ disk.approvals \subseteq disk'.approvals
        /\ \A i \in Intents : disk.receipts[i] # None => disk'.receipts[i] # None
      ]_vars

-----------------------------------------------------------------------------
(* The inductive invariant behind the safety properties *)

\* The states after dispatch, and those in which the approval is on disk.
Late == {"EXECUTING", "RECONCILIATION_REQUIRED", "SETTLED"}
ApprovedOrLate == Late \cup {"APPROVED"}

\* Replay protection in memory is never behind the file.
StoreCoversDisk ==
    /\ disk.intents \subseteq store.intents
    /\ disk.approvals \subseteq store.approvals
    /\ \A i \in Intents : disk.receipts[i] # None => store.receipts[i] # None

\* A tracked intent is known to the store, and an intent the store knows but the
\* file does not (its save failed) is still tracked.
IdsAreKnown ==
    \A i \in Intents :
        /\ i \in Tracked => i \in store.intents
        /\ i \in store.intents => i \in Tracked \/ i \in disk.intents

\* From APPROVED on, the intent and its approval are on disk: the save in
\* approve writes the whole store, so it also repairs a failed save in submit.
ApprovedIsDurable ==
    \A i \in Intents :
        rec[i].state \in {"APPROVED", "EXECUTING", "RECONCILIATION_REQUIRED", "SETTLED"}
            => /\ i \in disk.intents
               /\ \E q \in Quotes : <<i, q, rec[i].prepared>> \in disk.approvals

\* An intent that was handed to the adapter is on disk, so it is never submitted
\* again, and if it is tracked it is past APPROVED for good.
DispatchedIsFinal ==
    \A n \in DOMAIN calls :
        /\ calls[n].intent \in disk.intents
        /\ rec[calls[n].intent].state
              \in {"UNTRACKED", "EXECUTING", "RECONCILIATION_REQUIRED", "SETTLED"}

\* The intent of the execute() in progress is EXECUTING, logged as such, and not
\* dispatched before the adapter is entered.
FrameIsExecuting ==
    \A i \in Intents :
        frame.intent = i
            => /\ rec[i].state = "EXECUTING"
               /\ <<"executing", i>> \in audit
               /\ ~frame.sent => \A n \in DOMAIN calls : calls[n].intent # i

\* SAFETY.  Through failed writes and crashes the records, the store, its file, the log
\* and the execute() in progress stay in step: what every safety property rests on.
IInv ==
    /\ TypeOK
    /\ StoreCoversDisk
    /\ IdsAreKnown
    /\ ApprovedIsDurable
    /\ DispatchedIsFinal
    /\ FrameIsExecuting
    /\ DispatchAtMostOnce
    /\ ApprovedBeforeDispatch
    /\ AuditedBeforeDispatch
    /\ SettledIsDurable

-----------------------------------------------------------------------------
(* Statements of the repository that the code does not meet.  Each one is    *)
(* checked by a run that expects TLC to refute it.                           *)

\* DOCSTRING of approve: the approved triple matches what the orchestrator
\* prepared.  So the approved quote is the quote the payload was prepared from.
ApprovalMatchesPreparedQuote ==
    \A i \in Intents : rec[i].approval # None => rec[i].approval[1] = rec[i].prepared[1]
==============================================================================
