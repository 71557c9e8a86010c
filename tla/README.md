# A TLA+ verification of hermes-payments

hermes-payments lets two agents ("Hermes" processes) agree on a payment over a
message channel and settle it on an external rail, with a human approving the exact
prepared payload in between. What must never go wrong: a payment sent twice, a
payment sent that nobody approved, a payment reported as settled or as closed when it
was not. What makes this hard: every step crosses a file write that may fail, a
process that may be killed, an adapter call whose outcome may stay unknown, and a
channel that loses, repeats and reorders.

## 1. Inventory

| Component | State | Operations | Talks to |
|---|---|---|---|
| State machine (`state_machine.py`) | none | `transition` over a table | policy engine |
| Policy engine (`policy.py`, `PaymentOrchestrator`) | one record per intent: state, quote, prepared payload, approval, receipt, reconciliation evidence | `submit`, `receive_quote`, `prepare`, `approve`, `execute`, `receive_receipt`, `confirm_settled`, `reconcile_settlement`, `cancel`, `reject`, `check_expired` | store, log, adapter |
| Idempotency store (`policy.py`) | intent ids, approved triples, receipt bindings; in memory and in a file | `record_*` (change, then rewrite the file), `has_*`, `_load` | policy engine |
| Audit log (`policy.py`) | a JSONL file and the next sequence number | `append`, `_load_seq` | policy engine, recovery |
| Sender and recipient process (`examples/two_hermes_regtest/process.py`) | the orchestrator, an inbox, a snapshot file | one command at a time; a snapshot after each; restore at start; `recover` | operator, all of the above |
| Buzz transport (`transport.py`) | the set of seen event ids, the cursor file | `send`, `receive` | relay, peer |
| Peer endpoint (`peer.py`, `peer_transport.py`) | none of its own; the in-memory hub keeps queues | role checks around the policy engine | transport, policy engine |
| Settlement adapter (`adapter.py`) | none of its own | `prepare`, `execute`, `verify_receipt`, `verify_sender_settlement`, `reconcile_settlement` | wallet daemon |
| Wallet daemon | single-use send tokens, activity | external | adapter |
| Supervisor (`run.py`) and the command loop of its children (`run_hermes.py`) | two processes and the pipes to them | start, wait for ready, relay one command at a time, check, stop | operator, both processes |
| Envelope (`envelope.py`), executors, redaction, the Go runner | none that decides | encoding, subprocesses, harness | |

Hard behaviours: a store that is changed in memory before its file is written; two files
(store and snapshot) and a third (cursor) saved one after the other; `execute()`, which
hands control away after the intent became EXECUTING; records lost at a crash while the
store survives; stale quotes and deadlines that pass between two calls; a cursor that is
truncated, corrupted, or ahead of the inbox; two parties that each act on what the other
sent, either of which may be killed; pipes on which an answer is told from another only
by its place. `PROJECT.json` lists each at its line.

What makes each component correct:

- policy engine: one dispatch per intent, only with an approval on disk and an entry in
  the log; no settlement without a receipt binding on disk; no closing of what was
  dispatched;
- store: never forgets what is on disk;
- sender process: a dispatched intent is not executable again; a repeated dispatch is at
  least the same single-use token;
- adapter and wallet: money moves at most once, only as approved, and is never forgotten;
  success and COMPLETE evidence are only reported for a completed send of the prepared
  amount and hash;
- transport and inbox: nothing twice, nothing saved is lost, nothing skipped, nothing
  starved;
- the two parties: what the sender binds as settled the recipient has received; what the
  recipient has received is bound in the end; neither waits for the other for ever;
- supervisor: an answer belongs to the command it is reported for; when one child dies both
  end; no child is stopped in the middle of a command, or outlives the supervisor.

## 2. Modules

| Module | What it is |
|---|---|
| `PaymentStates` | the states, the transition table and `transition` |
| `PaymentContract` | the abstract specification: what the policy engine promises about an intent |
| `PaymentOrchestrator` | the policy engine with its store and log, its properties and its inductive invariant |
| `PaymentOrchestratorProofs` | the theorems about it |
| `PaymentContractProofs` | that it implements `PaymentContract` |
| `HermesProcess` | the sender's process: `PaymentOrchestrator` driven by commands, with snapshot, restart and recovery |
| `HermesProcessProofs` | the theorems about it |
| `WavelengthSettlement` | `HermesProcess` with the `WavelengthAdapter` and the wallet daemon behind it |
| `WavelengthSettlementProofs` | that it implements `HermesProcess`, and the safety of payments |
| `PeerDelivery` | the abstract specification of a transport and the inbox behind it, for one peer |
| `BuzzTransport` | polling, cursor and inbox; implements `PeerDelivery` |
| `BuzzTransportProofs` | what its loops compute, the theorems about it, and that it implements `PeerDelivery` |
| `HermesPeers` | both processes, the channel and the rail: `WavelengthSettlement` for the sender, a second `HermesProcess` for the recipient; built on `PeerDelivery` |
| `HermesPeersProofs` | the theorems about the two parties |
| `Supervisor` | the supervisor and the command loop of the children |
| `SupervisorProofs` | the theorems about its safety |
| `MC*` | the instances for TLC |

### PaymentOrchestrator

`rec` is `_intents` (an intent without a record is `UNTRACKED`), `order` the insertion order
of that dictionary, which `_find_by_state` depends on; `store` and `disk` are the store in
memory and its file; `audit` the entries written, without `seq` and `ts`; `frame` the
`execute()` in progress; `calls` a history of the adapter's `execute` calls.

There is one action per call. A call the code refuses without an effect is a stuttering
step and has no action; `ReceiveQuoteRefused` is there because that refusal comes after an
assignment. Calls are served one at a time, so each is one step, except `execute()`: it is
`Execute` (up to the adapter), `AdapterExecute`, and one of `ExecuteSettled`, `ExecuteFailed`,
`ExecuteRaised`. The parameter `io` names the write of the call that fails: `save_fails`
leaves the store changed in memory only and everything after it undone, `log_fails` loses
the last statement of the call. A crash in the middle of a call has the same effect on the
files as a failed write followed by `Crash`, so there is no separate action for it.

Data is reduced to what the code compares: an intent id stands for its intent, a prepared
hash for the pair of quote and send token that the payload contains. EXPIRED, FAILED and
DRAFT are states of the table that the orchestrator never stores: `submit` creates the record
after its transition, and failures of `execute` all go to RECONCILIATION_REQUIRED.
The mode without files (`store_path=None`) is left out.

### PaymentContract

An intent is fresh, open, committed, settled, closed or forgotten; only a committed one may
be released to the adapter, once; a crash forgets, and a forgotten intent stays so.
`Phase` maps a record to these. An intent whose id is not on disk is fresh again after a
crash, which is sound only because nothing is committed before its id and its approval are
on disk.

### HermesProcess

A command is the orchestrator action (`Command`) followed by the snapshot of `handle_line`'s
`finally` block (`Snapshot`, `SnapshotFails`), with `dirty` in between; `lost` remembers which
file ever missed a write, for the properties that need to say so. `Restart` is a kill at
any moment and a new process: records from the snapshot with EXECUTING turned into
RECONCILIATION_REQUIRED, the store from its file, the reconciliation query of
`_maybe_recover`. The snapshot file has its intents in the order of their ids (`sort_keys`), so a
restart turns the insertion order into that one (`Sorted`, by the constant `IdRank`).
`CommandWithoutEffect` is a `status`, or a refused command: it matters because
its snapshot makes up for one that failed. `Recover` is one round of the `recover` command, and `RecoverFails` one in
which an entry of the log or the snapshot of `_maybe_recover` itself cannot be written: a part of the records is restored,
the command raises, and the snapshot of `handle_line` is still to come. A restart whose own
writes fail ends before it serves a command; it is not a state of the model, which goes on with the start that succeeds. `cancel`,
`reject`, `confirm_settled` and `check_expired` have no command.

### WavelengthSettlement

In `HermesProcess` an adapter may answer anything. Here its answers come from a wallet:
`wallet` holds the tokens that `PrepareSend` handed out, the quote (so the invoice) each was
made for, and the activity entry of those that were sent; `flight` the Send requests on
their way, which outlive a timeout of `wavecli` and the process itself; `issued` whether the
`execute()` under way got past the expiry check of its token; `now` is the time of day, which
the adapter reads by itself and not from the clock of the process. The adapter is stateless, so it
appears as operators: `PreviewAccepted` (`prepare`), `MaySend`, `AnswerIsSuccess` and
`SendOutcome` (`execute`), `Evidence` (`reconcile_settlement`), `Verified`
(`verify_sender_settlement`). `PrepareWithWallet`, `ReceiptWithWallet`, `IssueSend`,
`SendReturns`, `RestartWithWallet`, `RecoverWithWallet` and `RecoverFailsWithWallet` are the steps of `HermesProcess` with the answers so
constrained. A query of the activity may fail, and a Send may go unanswered, at any time.

The wallet is external and modelled from what the adapter relies on: a token is accepted
once, an entry that ended does not change, the hash is that of the invoice. What the
adapter checks is not assumed: previews with other amounts, fees and totals, and payments of
another amount than the preview's, happen in the model.

### BuzzTransport

`Receive` is a poll up to the point where the handler returns: `Scan` is the loop of
`_receive_peer_messages` (`Look` is one turn of it), the cursor is saved, then new messages join
the inbox in the loop `Merge` (one turn is `AddNew`). The inbox reaches the disk with `Snapshot`.
The relay is external: a query returns any events of the
channel in any order. An event has a validity (kind, channel, schema, author), an author and
an expiry, which is all `validate_received_event` looks at.

An event has three outcomes: it is accepted, it is skipped (`EnvelopeValidationError`), or validation raises another
error (`Undecodable`): `decode_content` looks the envelope's type up in a dict, and a type that is a list or an object is a
`TypeError`, which neither `validate_received_event` nor the loop catches. `ReceiveRaises` is such a poll. Like one that cannot save its cursor
(`ReceiveFails`), it leaves the ids it scanned in `seen` and drops the messages it had found (`Abandon`). `dropped` is a history of the
messages whose ids are seen but which are not in the inbox, by such a poll, a kill or a failed snapshot. `CorruptCursor` is a file that
cannot be read or parsed, which `_load_cursor` takes for empty; a file that is not UTF-8, or whose JSON is no object, stops the start instead
and is left out.

### PeerDelivery

What the processes may rely on, whatever the transport: messages are new to a peer until it
takes them; what is taken may be lost, but nothing else reaches the inbox; a restart goes
back to the saved inbox, and only a restart makes old messages new. `ImplementsDelivery` maps
`fresh` to the events on the relay that are neither seen nor the peer's own (`relay \ (seen \cup Own)`).

### HermesPeers

One action per command of either operator, each the step of the parts with its message:
`SubmitIntent` is `submit_intent`, which submits first and then sends. When the send fails the command can be
repeated: `submit()` returns silently for an id it knows, whatever the state of the intent, and the intent is sent again; `PublishQuote` and `PublishReceipt` send whatever they are
given; `VerifyPublishReceipt` asks `verify_receipt` about the recipient's wallet (`received`);
`AcceptIntent`, `AcceptQuote` and `AcceptReceipt` take a message from the inbox. `AliceReceives` and
`BobReceives` poll any part of the channel. The role checks of `HermesPeer` hold by the form of
the messages: only the sender has intents to send, only the recipient quotes and receipts.

A message stands for all events with its content, since a second one is a replay to whoever
has the first. For the same reason a message the other side has not yet polled is not sent
again (the guards of `Publish` and of the repeated `SubmitIntent`). The policy engines' clock stands still, as `run_hermes.py` starts a
process without one (`process.py:274`), while transport and adapter read `now`. A payment reaches
the recipient before the sender's wallet knows that it completed, and a payment that reached
him does not fail: this is the rail, external.

### Supervisor

`at` and `who` are the place in `main()` and the child it is busy with, `handles` the children
`main()` could stop, `child` the processes themselves, `stdin` and `stdout` the lines in the pipes.
A line is the command it carries or answers. `Send` writes a command, `Reply` and `ChildGone` are
the two ends of the `readline` that follows, `StopChild` is `_stop_process` in the `finally` block.
An `Interrupt` may come at any point, with or without reaching the children, and a second one
in the `finally` block leaves it; a child may die at any point (`ChildDies`). What a command does
is the matter of the other modules. Argument checks, the wrapper script, the health probe and
redaction come before the first action or keep no state.

## 3. Runs

Passing runs:

| Run | Instance | Shows |
|---|---|---|
| `one_intent` | 1 intent, 2 quotes, 2 tokens, 2 references, time 1..2, 2 faults | all safety properties and `IInv` |
| `two_intents` | 2 intents with a quote each | `ImplementsContract`, `DiskOnlyGrows` |
| `process` | the sender's process with 1 intent, 2 quotes, 2 tokens; any write may fail, a kill at any moment; 2 faults | `SettledIsDurable` across restarts, `SavedDispatchIsFinal`, `RepeatedDispatchSameHash`, and `ProcessIInv`, of which `ApprovedBeforeDispatch` is a part |
| `settlement` | the process with the wallet: 1 intent, 2 quotes with an invoice each, 2 tokens of which one expires, 2 faults (kills, lost snapshots) | `PaidAtMostOnce`, `PaidAsApproved`, `SettledIsPaid`, `EvidenceIsTrue`, `PaymentIsTracked`, `SettlementIInv` |
| `inbox` | 2 peer messages (one expires), an own event, and one on which validation raises; cursor cap 2, a limit of none, one or all messages, 2 faults of any kind | `TransportIInv`, `InboxHasNoDuplicates`, `SeenIsDelivered`, `SavedInboxOnlyGrows`, `ImplementsDelivery`, `DeliveredEventually` |
| `peers` | both processes with 1 intent, its quote (which expires) and 1 token; 1 kill of either, at any moment | `BoundIsReceived`, `PaidIsBound`, `SubmittedIsDispatched`, `PeersDeliver`, `PeersIInv` |
| `supervisor` | 2 children, 2 commands, 2 interrupts, any deaths | `AnswersMatch`, `StoppedBetweenCommands`, `NothingLeftBehind`, `CommandsAreAnswered`, `FailsClosed`, `NoOrphans`, `SupervisorIInv` |

Runs that refute a statement of the repository (the findings of `PROJECT.json`):

| Run | Statement | What happens |
|---|---|---|
| `stale_approval` | an approval matches what was prepared | a refused quote replaces the prepared one |
| `expired_quote` | a quote is void after `expires_at` | a deployed process has no clock, so a quote received in time is prepared after it |
| `killed_in_execute` | recovery never makes a dispatched intent executable | the snapshot is older than the dispatch |
| `undecodable_event` | invalid events are silently skipped | one on which validation raises ends the poll, and the messages found before it are lost |
| `replayed_intent` | replaying an intent is a no-op | the id was never saved, the record was |

Bounds. Two quotes and two tokens are what a second preparation of the same intent needs to
differ from the first. `process` uses that no constant tells its tokens apart, `settlement` the same of its
quotes (the hash of an invoice goes by the name of its quote there): symmetry, sound because both runs
check only invariants and an action property. Time 1..2 lets an intent or a
quote be valid and then expired. Two faults are a failed write and a crash after it, which
every hazard listed comes down to. The clock starts at 1 because an `expires_at` of 0 means
never. A second intent adds nothing to the records of the first except through `order` and
the whole-file save, which `two_intents` covers. In `peers` one kill loses the messages of a
poll, a record, or the answer of a Send, at either end; writes succeed there, their failures
are in the runs of the parts. Two interrupts reach the `finally` block and leave it. CHECK_DEADLOCK is FALSE everywhere: these
components react to callers, and nobody has to call.

`killed_in_execute` shows a dispatched intent that becomes executable again, and `settlement`
why it is not paid twice: the restarted process still holds the same payload, so the second
Send names the token the first one used. `PaidAtMostOnce` and `PaymentIsTracked` are stated
for histories in which no snapshot was lost (`lost`); with two lost snapshots and a kill,
three faults, the process falls back to QUOTED, prepares a new token and pays again.

`PaidIsBound` says exactly what survives a kill. It assumes the intent in the recipient's snapshot:
killed between the save of the accepted id and the snapshot, he refuses the intent as a replay
and has no record to verify a receipt for. It promises the binding on the sender's disk and not
the state SETTLED: killed between that save and the snapshot of `accept_receipt`, the sender comes
back in RECONCILIATION_REQUIRED, and refuses the receipt as bound already. And it leaves out the
case that a later quote replaced the paid one, as in `stale_approval`: then the receipt names a
quote the record no longer has. The run has one quote, so this case does not happen there. The
premise, and the binding instead of the state, are needed: without them TLC finds the property
violated by one kill.

Fairness. In `BuzzTransport`, `FairSpec` assumes that the operator
keeps polling and that again and again a poll reaches the relay in full (strong fairness of
`Poll`, since single polls may see a part of the channel), and that the snapshot in
`handle_line`'s `finally` block is taken (weak fairness). A poll that raises counts as one that
reached the relay. `DeliveredEventually` says that a message that stays valid reaches the durable inbox or is dropped for good; the
runs have every fault, and losing a message to one is what the code does: `SeenIsDelivered` says which faults. It has one hypothesis of two.
Either the process is not restarted for ever (`RestartsEnd`), or its cursor file has room for all ids and no event makes validation
raise (`CursorHoldsAll`). Both are needed: past the cap, a process that restarts between any two polls with a small limit is handed the same old
events each time; and a poll that raises does not save the cursor, so that a process restarted after every one meets the same event again.
`PeersFairSpec` assumes that the operators follow the flow of `docs/TESTING.md`: each goes on giving
the commands that bring the payment forward (`AliceWork`, `BobWork`), whatever other commands come
in between, and each sends again what the other does not have, the sender by repeating `submit_intent` until a send
succeeds; strong fairness, because a command can only be given between two others. `SubmittedIsDispatched` rests on that repetition: it is
about every intent submitted, also when its first send failed. The subscripts are the variables that the steps in question change, which
says the same as all variables and is cheaper for TLC. A command that runs ends, with its
snapshot, because its subprocesses have time limits (30 s) and the snapshot is in a `finally`
block; a payment that arrived is in the end shown as complete (weak fairness). Nothing forces
a Send to arrive, a payment to succeed, or time to pass.
`Supervisor` assumes that each process goes on while it can (weak fairness): the supervisor waits
at most 0.25 s for input, and a handler ends as above. It does not assume that an operator says
anything.
No progress is claimed for the policy engine alone, because the call that would guarantee it,
`check_expired`, is made by nothing in the repository except its tests.

## 4. Proofs

Every safety property of the passing runs (invariant, action property or refinement) is a theorem,
for any values of the constants. The invariants the proofs need are invariants of runs too: TLC finds out
whether they hold, the proofs whether they are inductive.

| Component | Theorems | Inductive invariant | Run that checks it |
|---|---|---|---|
| policy engine | `TypeCorrect`, `DispatchedOnce`, `DispatchedWithApproval`, `DispatchedWithAudit`, `SettledDurably`, `ClosedUnpaid`, `ReplayProtectionGrows`; `Refinement` of `PaymentContract` | `IInv` | `one_intent` |
| sender's process | `ProcessTypeCorrect`, `ProcessDispatchedWithApproval`, `ProcessSettledDurably`, `SameHashAgain`, `DispatchStays`, `ProcessReplayProtectionGrows`, `ProcessDispatchedWithAudit` | `ProcessIInv` | `process` |
| process and wallet | `SettlementTypeCorrect`, `NeverPaidTwice`, `PaidOnlyAsApproved`, `SettledOnlyWhenPaid`, `EvidenceOnlyOfSends`, `PaymentStaysTracked`; `SettlementImplementsProcess` | `SettlementIInv` | `settlement` |
| transport and inbox | `NoDuplicates`, `SavedInboxGrows`, `SeenStaysDelivered`; `DeliveryRefinement` of `PeerDelivery` | `TransportIInv` | `inbox` |
| two parties | `PeersTypeCorrect`, `BoundOnlyWhenReceived`, `PeersPaymentSafety`, `PeersDispatchSafety`, `PeersReplayProtectionGrows`; `PeersRefineDelivery` | `PeersIInv` | `peers` |
| supervisor | `SupervisorTypeCorrect`, `AnswersAlwaysMatch`, `NoCommandIsCut`, `NoChildLeftBehind` | `SupervisorIInv` | `supervisor` |

Assumptions. The constants have their types; `None` is no identifier, no hash and no status. A
snapshot lists finitely many intents (`IsFiniteSet(Intents)`), and ids are told apart by the order in
which `sort_keys` puts them (`IdRank` is injective), which makes `Sorted` an enumeration. The rail of
the adapter is one of the rails. For `BuzzTransport`, own and valid events are events, one on which validation raises is not valid, and the string
order of their ids tells them apart; the relay holds finitely many at a time.
For `HermesPeers`, the amount of an intent is among the amounts a
receipt may state. The bounds on time and faults are any numbers.

### The policy engine

The safety properties are not inductive. `DispatchAtMostOnce` depends on what is on disk when
memory is gone, so `IInv` adds: memory is never behind the file (`StoreCoversDisk`); a tracked
intent is known to the store, and one that only memory knows is tracked (`IdsAreKnown`); from
APPROVED on, the id and the approval of the intent are on disk (`ApprovedIsDurable`: the save
in `approve` writes the whole store and so repairs a failed save in `submit`); a dispatched
intent is on disk and past APPROVED (`DispatchedIsFinal`); the intent of an `execute()` in
progress is EXECUTING, logged, and not dispatched before the adapter is entered
(`FrameIsExecuting`).

All actions but two are "ordinary" (lemma `StepsAreOrdinary`): they make no
adapter call, save only a larger store, and move a record only along states that keep the
invariant; `OrdinaryPreserves` shows once that such a step preserves `IInv`.
`AdapterExecute` and `Crash` have a lemma each. `ReplayProtectionGrows` follows from the same
classification and `StoreCoversDisk`.

`Refinement` goes action by action. `MovesAllowed` says which changes of a record's state are steps
of the contract and which are none; the actions that touch one record use it. The steps where `IInv`
does the work are `SubmitRefines` (an id the store does not know is fresh, not forgotten),
`AdapterExecuteRefines` (it is the first release of a committed intent) and `CrashRefines` (what is
committed is on disk, so it does not become fresh).

### The sender's process

A restart brings back records from a snapshot that may be older than the store, so `IInv` does not
carry over: a dispatched intent may be APPROVED again. What does hold is weaker and about both
copies. Records in memory and in the snapshot claim no more than the disk has (`Backed`), because
the disk only grows; this alone gives `ApprovedBeforeDispatch` and `SettledIsDurable`, whatever is
lost. As long as no save was lost, every id of a record or of the snapshot is on disk and memory is
not behind a snapshot that shows a dispatch (`SavesAreComplete`), which gives
`SavedDispatchIsFinal`. As long as no snapshot was lost either, snapshot and memory differ only by
the command under way, and both hold what was dispatched with its hash (`SnapshotsAreComplete`),
which gives `RepeatedDispatchSameHash`. Every command is classified once by how it moves a record, the
store and the file, and one lemma per part of the invariant does the rest; `Restart`, `Recover` (with
`RecoverFails`, which restores a part of the same records: `FailedRestore`) and the snapshots have their own.

`ProcessReplayProtectionGrows` uses the same classification. `ProcessDispatchedWithAudit` needs one more fact
(`FrameIsLogged`): the intent of an `execute()` in progress is in the log, which no step shortens, a
restart included.

### Process and wallet

`SettlementImplementsProcess` shows that the adapter and its wallet only choose among the answers that
`HermesProcess` allows, so that `ProcessIInv` need not be proved again. `SettlementIInv` adds: a record, in
memory or in the snapshot, names a token that was handed out for its quote, and COMPLETE evidence is
of a completed send (`MatchWallet`); what was sent, or is on its way, was handed to the adapter
(`SentWasDispatched`); a bound receipt is of a completed send (`ReceiptsAreVerified`). `PaidAtMostOnce` then
follows: two payments of an intent were two dispatches, a repeated dispatch has the same hash, and a
hash names one token.

### Transport and inbox

Everything here rests on what two loops compute for every batch. `LeastNumber` (from the well-foundedness
of the natural numbers) gives induction over the turns of a loop, `LoopInduction`, stated with the set of
turns after which something holds. `MergeLoop` and `ScanLoop` show by it that the recursive functions in `Merge`
and `Scan` exist, `MergeAdds`, `MergeIntoNothing` and `ScanFinds` what they return: a merge appends, adds what is
missing, and nothing twice; a scan finds exactly the acceptable ones of the events it sees for the first time,
whatever the limit and the order.

`InboxHasNoDuplicates` is then inductive but not enough for the rest. `TransportIInv` adds that the inbox continues the
saved one (`IsPrefix(saved, inbox)`), which is why a snapshot never shortens it and a recovery changes nothing, and
that the cursor file names only seen events, which is why a restart makes messages new again but never old.
`DeliveryRefinement` maps a poll, successful or not, to `Take` (`PollTakes`), and a restart to `Restart`, because merging the
saved inbox into nothing gives it back. `SeenStaysDelivered` has no assumption on the
faults: a seen event was handed over, needed no delivery, or is in `dropped`, and a message is dropped only if something is to blame (`Blamed`), an
undecodable event or a fault. Its invariant (`DeliveryIInv`) adds that without such a fault the saved inbox is, between two commands, the one in
memory.

Together with `PeersRefineDelivery`, both sides of `PeerDelivery` are proved: the transport keeps the promise, and the
two-party model assumes no more of each peer's channel than steps that it allows.

### The two parties

A step of the composition is a step of the sender with its wallet, or leaves it alone (`AliceSteps`), so
`SettlementIInv` carries over, and with it what is proved of the process (`AliceIsProcess`);
the rail shows as completed only what arrived (`CompletedIsReceived`). From
both, what the sender has bound the recipient has received. `PeersDeliver` is proved step by step for
both peers; it needs only the types of the messages.

### The supervisor

`Conversation` says for each place in `main()` what is in the pipes of either child and what the child
is doing. It is needed because `AnswersMatch` and `StoppedBetweenCommands` look at one moment, while what
is in a pipe was decided several steps before, by the other process. `Holding` says which handles `main()` has at
each place: when it stops, a child it has no handle of was never started or has died, so that without an
interrupt nothing is left behind. With one, a child that was being started may be left, and `NoOrphans` says
that it ends by itself.

### Only model-checked

- Liveness: `DeliveredEventually`, `PaidIsBound`, `SubmittedIsDispatched`, `CommandsAreAnswered`, `FailsClosed`,
  `NoOrphans`. Fairness is out of the prover's reach.
- The five runs that expect a violation.

## 5. Not modelled

- `envelope.py` and the field validation of pydantic: a stateless encoding; an event is valid, is
  not, or makes `decode_content` raise, and a message is its content.
- Command lines, JSON output, redaction, argument checks, the wrapper script and the health
  probe: input and output without state the properties speak of.
- `InMemoryTransportHub`: the transport of the tests.
- The sequence numbers of the audit log and lines torn by a crash: the log is the set of its
  entries. A torn line makes every later start fail, which is a hazard of `PROJECT.json`.
- The mode without files (`store_path=None`).
- Two flows at a time in one process beyond `two_intents`: declared unsupported in
  `docs/KNOWN_LIMITATIONS.md`.
- The Go runner of `examples/live-signet`: a harness around external daemons.

Hazards without a property are in `PROJECT.json` with the reason.

## 6. What is left

1. Models: `WavelengthSettlement` with two intents of the same amount, and the audit log's sequence numbers over
   restarts.
2. The recipient as an implementation of `HermesProcess`: only his types are proved. He shares the bounds on faults
   and time with the sender, so a kill of the other process is no step of his own specification as it stands.
