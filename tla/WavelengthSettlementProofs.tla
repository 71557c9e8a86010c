---------------------- MODULE WavelengthSettlementProofs ----------------------
(***************************************************************************)
(* Proofs about WavelengthSettlement, for every value of its constants.    *)
(* First, every step of the process with its wallet is a step of           *)
(* HermesProcess, so that what is proved there holds here; then an         *)
(* invariant that ties the records to the wallet.                          *)
(***************************************************************************)
EXTENDS WavelengthSettlement, HermesProcessProofs

(***************************************************************************)
(* The process with a wallet is a process                                  *)
(***************************************************************************)

\* A record from APPROVED on holds a prepared hash.
LEMMA ApprovedHasHash ==
    ASSUME ProcessIInv, NEW i \in Intents, rec[i].state \in ApprovedOrLate
    PROVE  rec[i].prepared \in Hashes
<1>1. PICK q \in Quotes : <<i, q, rec[i].prepared>> \in disk.approvals
  BY DEF ProcessIInv, Backed
<1>2. disk.approvals \subseteq Triples
  BY DEF ProcessIInv, ProcessTypeOK, TypeOK, Store
<1> QED
  BY <1>1, <1>2 DEF Triples

\* The reference that execute() reports is one of the rail.
LEMMA SuccessHasRef ==
    ASSUME ProcessIInv, NEW i \in Intents, NEW t, frame.intent = i, AnswerIsSuccess(i, t)
    PROVE  InvoiceHash[wallet[t].quote] \in Refs
<1>1. rec[i].prepared \in Hashes
  BY ApprovedHasHash DEF ProcessIInv, ExecutingInHandler, ApprovedOrLate, Late
<1>2. rec[i].prepared[1] \in Quotes
  BY <1>1 DEF Hashes
<1> QED
  BY <1>2, WalletAssumption DEF AnswerIsSuccess

\* A command with a wallet is a command.
LEMMA WalletCommand ==
    ASSUME NEW io \in Outcomes, CommandWithWallet(io)
    PROVE  Command(io)
<1>1. PICK i \in Intents :
        \/ SubmitCommand(i, io) \/ QuoteCommand(i, io)
        \/ ApproveCommand(i, io) \/ ExecuteCommand(i, io)
        \/ PrepareWithWallet(i, io) \/ ReceiptWithWallet(i, io)
  BY DEF CommandWithWallet
<1>2. CASE PrepareWithWallet(i, io)
  <2>1. \A preview \in Previews : preview.fee \in Fees
    BY DEF Previews
  <2>2. PrepareCommand(i, io)
    BY <1>2, <2>1, WalletAssumption DEF PrepareWithWallet, PrepareCommand
  <2> QED
    BY <2>2 DEF CommandWithWallet, Command
<1>3. CASE ReceiptWithWallet(i, io)
  <2>1. ReceiptCommand(i, io)
    BY <1>3 DEF ReceiptWithWallet, HandleReceipt, ReceiptCommand
  <2> QED
    BY <2>1 DEF CommandWithWallet, Command
<1> QED
  BY <1>1, <1>2, <1>3 DEF CommandWithWallet, Command

\* The answers of the wallet are statuses.
LEMMA AnswersType == Answers \subseteq [Intents -> Statuses]
BY DEF Answers

\* Every step is a step of the process, or none.
LEMMA SettlementIsProcess ==
    ASSUME ProcessIInv, [SettlementNext]_settlementVars
    PROVE  [ProcessNext]_processVars
<1>1. ASSUME NEW io \in Outcomes, CommandWithWallet(io) PROVE ProcessNext
  BY <1>1, WalletCommand DEF ProcessNext
<1>2. ASSUME NEW io \in Outcomes, NEW i \in Intents, SendReturns(i, io) PROVE ProcessNext
  <2> DEFINE t == PreparedToken(rec[i])
  <2>1. frame.intent = i
    BY <1>2 DEF SendReturns
  <2>2. AnswerIsSuccess(i, t) => InvoiceHash[wallet[t].quote] \in Refs
    BY <2>1, SuccessHasRef
  <2>3. SendOutcome(i, t, io)
    BY <1>2 DEF SendReturns
  <2> HIDE DEF t
  <2>4. ExecuteStep(i, io)
    BY <2>2, <2>3 DEF SendOutcome, ExecuteStep
  <2>5. ContinueExecute(io)
    BY <1>2, <2>4 DEF SendReturns, ContinueExecute
  <2> QED
    BY <2>5 DEF ProcessNext
<1>3. ASSUME NEW i \in Intents, IssueSend(i) PROVE ProcessNext
  <2>1. ExecuteStep(i, "ok") /\ Losing("ok") /\ UNCHANGED <<snapshot, dirty>>
    BY <1>3 DEF IssueSend, ExecuteStep, Losing
  <2>2. "ok" \in Outcomes
    BY DEF Outcomes
  <2> QED
    BY <2>1, <2>2 DEF ProcessNext, ContinueExecute
<1>4. ASSUME RestartWithWallet \/ RecoverWithWallet \/ RecoverFailsWithWallet
      PROVE  ProcessNext
  BY <1>4, AnswersType
  DEF RestartWithWallet, RecoverWithWallet, RecoverFailsWithWallet, ProcessNext
<1>5. ASSUME SnapshotOnly PROVE ProcessNext
  BY <1>5 DEF SnapshotOnly, ProcessNext
<1>6. ASSUME SettlementTick PROVE ProcessNext
  BY <1>6 DEF SettlementTick, ProcessNext
<1>7. ASSUME NEW t \in Tokens,
             \/ \E amount \in Amounts : SendArrives(t, amount)
             \/ SendRefused(t)
             \/ \E status \in {"COMPLETE", "FAILED"} : PaymentEnds(t, status)
      PROVE  UNCHANGED processVars
  BY <1>7 DEF SendArrives, SendRefused, PaymentEnds
<1>8. ASSUME UNCHANGED settlementVars PROVE UNCHANGED processVars
  BY <1>8 DEF settlementVars
<1> QED
  BY <1>1, <1>2, <1>3, <1>4, <1>5, <1>6, <1>7, <1>8 DEF SettlementNext

\* THEOREM.  The process with the Wavelength adapter and its wallet implements the
\* process with an unspecified adapter: whatever holds of HermesProcess holds of it.
THEOREM SettlementImplementsProcess == SettlementSpec => ProcessSpec
<1>1. ProcessIInv /\ [SettlementNext]_settlementVars => ProcessIInv'
  BY SettlementIsProcess, ProcessStep
<1>2. SettlementInit => ProcessInit
  BY DEF SettlementInit
<1>3. ProcessIInv /\ [SettlementNext]_settlementVars => [ProcessNext]_processVars
  BY SettlementIsProcess
<1> QED
  BY <1>1, <1>2, <1>3, ProcessInitIInv, PTL DEF SettlementSpec, ProcessSpec

-----------------------------------------------------------------------------
(***************************************************************************)
(* What a step does to the wallet                                          *)
(***************************************************************************)

\* A free token is handed out; what is sent was on its way or sent before, is not
\* complete yet, and stays a payment of the same quote.
HandedOut(t) == wallet[t].status = "free" /\ wallet'[t].status = "prepared"

Paying(t) ==
    /\ t \in flight \cup Sent
    /\ wallet[t].status # "COMPLETE" /\ wallet'[t].status # "free"
    /\ wallet'[t].quote = wallet[t].quote

WalletStep == \A t \in Tokens : wallet'[t] = wallet[t] \/ HandedOut(t) \/ Paying(t)

\* Verified and RecordMatches, in the next state, of a given value.
VerifiedAfter(ref, amount) ==
    \E t \in Tokens : /\ wallet'[t].status = "COMPLETE"
                      /\ wallet'[t].amount = amount
                      /\ InvoiceHash[wallet'[t].quote] = ref

MatchesAfter(i, r) ==
    /\ r.quote # None => QuoteIntent[r.quote] = i
    /\ r.prepared # None
         => /\ QuoteIntent[r.prepared[1]] = i
            /\ wallet'[r.prepared[2]].quote = r.prepared[1]
            /\ wallet'[r.prepared[2]].status # "free"
    /\ r.reconciliation # None => r.state \in {"RECONCILIATION_REQUIRED", "SETTLED"}
    /\ r.reconciliation = "COMPLETE"
         => r.prepared # None /\ VerifiedAfter(InvoiceHash[r.prepared[1]], Amount[i])

\* A completed send stays one.
LEMMA VerifiedStays ==
    ASSUME WalletStep, NEW ref, NEW amount, Verified(ref, amount)
    PROVE  VerifiedAfter(ref, amount)
BY DEF WalletStep, HandedOut, Paying, Verified, VerifiedAfter, EntriesFor, Sent

\* What matched the wallet still does.
LEMMA MatchStays ==
    ASSUME WalletStep, NEW i \in Intents, NEW r \in Record, RecordMatches(i, r)
    PROVE  MatchesAfter(i, r)
<1>1. r.prepared # None => r.prepared[2] \in Tokens
  BY DEF Record, Hashes
<1>2. /\ r.reconciliation = "COMPLETE"
            => r.prepared # None /\ VerifiedAfter(InvoiceHash[r.prepared[1]], Amount[i])
  BY VerifiedStays DEF RecordMatches
<1>3. \A t \in Tokens : wallet[t].status # "free"
        => wallet'[t].status # "free" /\ wallet'[t].quote = wallet[t].quote
  BY DEF WalletStep, HandedOut, Paying
<1> QED
  BY <1>1, <1>2, <1>3 DEF RecordMatches, MatchesAfter

\* The invariants in the next state.
LEMMA MatchesInNextState ==
    /\ (\A i \in Intents : MatchesAfter(i, rec'[i])) => MatchWallet(rec)'
    /\ (\A i \in Intents : MatchesAfter(i, snapshot'[i])) => MatchWallet(snapshot)'
<1>1. \A ref, amount : VerifiedAfter(ref, amount) => Verified(ref, amount)'
  BY DEF VerifiedAfter, Verified, EntriesFor, Sent
<1> QED
  BY <1>1 DEF MatchWallet, RecordMatches, MatchesAfter

\* Sends stay dispatched, as long as no new one is issued.
LEMMA DispatchedStays ==
    ASSUME SentWasDispatched, flight \subseteq Tokens, WalletStep, flight' \subseteq flight,
           calls' = calls
    PROVE  SentWasDispatched'
<1>1. ASSUME NEW t \in flight' \cup Sent'
      PROVE  /\ t \in flight \cup Sent
             /\ wallet'[t].quote = wallet[t].quote /\ wallet'[t].status # "free"
  <2>1. t \in Tokens
    BY DEF Sent
  <2>2. t \in flight => wallet[t].status # "free"
    BY DEF SentWasDispatched
  <2> QED
    BY <2>1, <2>2 DEF WalletStep, HandedOut, Paying, Sent
<1> QED
  BY <1>1 DEF SentWasDispatched

\* A receipt is left alone, or bound to a completed send; the file follows.
ReceiptsMove ==
    /\ \A i \in Intents : \/ store'.receipts[i] = store.receipts[i]
                          \/ VerifiedAfter(store'.receipts[i], Amount[i])
    /\ disk'.receipts \in {disk.receipts, store.receipts, store'.receipts}

\* Such a step keeps every bound receipt verified, because a completed send stays one.
LEMMA ReceiptsStay ==
    ASSUME ReceiptsAreVerified, WalletStep, ReceiptsMove
    PROVE  ReceiptsAreVerified'
<1> SUFFICES ASSUME NEW i \in Intents
             PROVE  /\ store'.receipts[i] # None => Verified(store.receipts[i], Amount[i])'
                    /\ disk'.receipts[i] # None => Verified(disk.receipts[i], Amount[i])'
  BY DEF ReceiptsAreVerified
<1>1. /\ store.receipts[i] # None => VerifiedAfter(store.receipts[i], Amount[i])
      /\ disk.receipts[i] # None => VerifiedAfter(disk.receipts[i], Amount[i])
  BY VerifiedStays DEF ReceiptsAreVerified
<1>2. /\ store'.receipts[i] # None => VerifiedAfter(store'.receipts[i], Amount[i])
      /\ disk'.receipts[i] # None => VerifiedAfter(disk'.receipts[i], Amount[i])
  BY <1>1 DEF ReceiptsMove
<1> QED
  BY <1>2 DEF VerifiedAfter, Verified, EntriesFor, Sent

-----------------------------------------------------------------------------
(***************************************************************************)
(* What a command does to the records and the wallet                       *)
(***************************************************************************)

\* A record is prepared only with a token that was handed out for its quote.
PreparedMatches ==
    \A i \in Intents :
        Prepared(i) => /\ wallet'[rec'[i].prepared[2]].quote = rec'[i].prepared[1]
                       /\ wallet'[rec'[i].prepared[2]].status # "free"

\* A move of a record that matches the wallet leaves a record that matches it.
LEMMA MatchMoves ==
    ASSUME WalletStep, PreparedMatches, NEW i \in Intents, rec[i] \in Record, RecordStep(i),
           RecordMatches(i, rec[i])
    PROVE  MatchesAfter(i, rec'[i])
<1>1. MatchesAfter(i, rec[i])
  BY MatchStays
<1>2. CASE Submitted(i)
  BY <1>2, NoneAssumption DEF Submitted, MatchesAfter
<1>3. CASE Prepared(i)
  <2>1. rec[i].reconciliation = None
    BY <1>3 DEF Prepared, RecordMatches
  <2>2. QuoteIntent[rec[i].quote] = i
    BY <1>3, NoneAssumption DEF Prepared, RecordMatches
  <2> QED
    BY <1>3, <2>1, <2>2, NoneAssumption DEF Prepared, PreparedMatches, MatchesAfter
<1>4. CASE \/ Untouched(i) \/ Quoted(i) \/ Approved(i) \/ Dispatching(i)
           \/ Failed(i) \/ Settled(i)
  <2>1. Kept(i) /\ Requoted(i)
    BY <1>4 DEF Untouched, Quoted, Approved, Dispatching, Failed, Settled
  <2>2. rec'[i].reconciliation # None
          => rec'[i].state \in {"RECONCILIATION_REQUIRED", "SETTLED"}
    BY <1>4, <2>1 DEF RecordMatches, Untouched, Quoted, Approved, Dispatching, Failed,
                      Settled, Kept
  <2>3. rec'[i].quote # None => QuoteIntent[rec'[i].quote] = i
    BY <2>1 DEF RecordMatches, Requoted
  <2> QED
    BY <1>1, <2>1, <2>2, <2>3 DEF MatchesAfter, Kept
<1> QED
  BY <1>2, <1>3, <1>4 DEF RecordStep

\* What the invariant adds to that of the process.
WalletInv ==
    MatchWallet(rec) /\ MatchWallet(snapshot) /\ SentWasDispatched /\ ReceiptsAreVerified

\* A handled command preserves it.
LEMMA HandledKeepsWallet ==
    ASSUME SettlementIInv, NEW io, Handled(io), WalletStep, PreparedMatches, ReceiptsMove,
           snapshot' = snapshot, flight' = flight
    PROVE  WalletInv'
<1>1. MatchWallet(rec)'
  <2>1. \A i \in Intents : MatchesAfter(i, rec'[i])
    BY MatchMoves DEF SettlementIInv, SettlementTypeOK, ProcessTypeOK, TypeOK, MatchWallet,
                      Handled
  <2> QED
    BY <2>1, MatchesInNextState
<1>2. MatchWallet(snapshot)'
  <2>1. \A i \in Intents : MatchesAfter(i, snapshot'[i])
    BY MatchStays DEF SettlementIInv, SettlementTypeOK, ProcessTypeOK, MatchWallet
  <2> QED
    BY <2>1, MatchesInNextState
<1>3. SentWasDispatched' /\ ReceiptsAreVerified'
  BY DispatchedStays, ReceiptsStay DEF SettlementIInv, SettlementTypeOK, Handled
<1> QED
  BY <1>1, <1>2, <1>3 DEF WalletInv

\* Binding a receipt to a completed send.
LEMMA BindingReceipt ==
    ASSUME TypeOK, wallet' = wallet, NEW i \in Intents, NEW ref, NEW io,
           Verified(ref, Amount[i]), Save([store EXCEPT !.receipts[i] = ref], io)
    PROVE  ReceiptsMove
<1> DEFINE s == [store EXCEPT !.receipts[i] = ref]
<1>1. s.receipts = [store.receipts EXCEPT ![i] = ref] /\ store.receipts \in [Intents -> Refs \cup {Manual, None}]
  BY DEF TypeOK, Store
<1>2. s.receipts[i] = ref /\ \A j \in Intents : j # i => s.receipts[j] = store.receipts[j]
  BY <1>1
<1>3. store' = s /\ (disk' = disk \/ disk' = s)
  BY DEF Save
<1>4. VerifiedAfter(ref, Amount[i])
  BY DEF Verified, VerifiedAfter, EntriesFor, Sent
<1> HIDE DEF s
<1> QED
  BY <1>2, <1>3, <1>4 DEF ReceiptsMove

\* prepare with a wallet.
LEMMA PrepareWithWalletStep ==
    ASSUME SettlementTypeOK, TypeOK', NEW i \in Intents, NEW io, PrepareWithWallet(i, io)
    PROVE  Handled(io) /\ WalletStep /\ PreparedMatches /\ ReceiptsMove /\ flight' = flight
<1>1. PICK token \in Tokens, preview \in Previews :
        /\ wallet[token].status = "free"
        /\ Prepare(i, token, preview.fee, AdapterRail, io)
        /\ wallet' = [wallet EXCEPT ![token] =
                        [status |-> "prepared", quote |-> rec[i].quote,
                         amount |-> preview.amount]]
  BY DEF PrepareWithWallet
<1>2. /\ Handled(io) /\ rec'[i].prepared = <<rec[i].quote, token>>
      /\ \A j \in Intents : j # i => rec'[j] = rec[j]
  BY <1>1, PrepareHandled DEF SettlementTypeOK, ProcessTypeOK
<1>3. /\ wallet'[token] = [status |-> "prepared", quote |-> rec[i].quote,
                           amount |-> preview.amount]
      /\ \A t \in Tokens : t # token => wallet'[t] = wallet[t]
  BY <1>1 DEF SettlementTypeOK
<1>4. WalletStep
  BY <1>1, <1>3 DEF WalletStep, HandedOut
<1>5. PreparedMatches
  BY <1>2, <1>3 DEF PreparedMatches, Prepared
<1>6. ReceiptsMove
  BY <1>1 DEF Prepare, NoStoreChange, ReceiptsMove
<1> QED
  BY <1>2, <1>4, <1>5, <1>6 DEF PrepareWithWallet

\* A command that leaves the wallet and the receipts alone, and prepares nothing.
LEMMA QuietCommand ==
    ASSUME Unprepared, wallet' = wallet, store'.receipts = store.receipts,
           disk'.receipts \in {disk.receipts, store.receipts}
    PROVE  WalletStep /\ PreparedMatches /\ ReceiptsMove
BY DEF Unprepared, WalletStep, PreparedMatches, ReceiptsMove

\* Every command with a wallet.
LEMMA CommandWithWalletStep ==
    ASSUME SettlementTypeOK, TypeOK', NEW io \in Outcomes, CommandWithWallet(io)
    PROVE  /\ Handled(io) /\ WalletStep /\ PreparedMatches /\ ReceiptsMove
           /\ snapshot' = snapshot /\ flight' = flight
<1>1. TypeOK /\ TypeOK' /\ io \in IO /\ snapshot' = snapshot
  BY DEF SettlementTypeOK, ProcessTypeOK, CommandWithWallet, HandleLine, Outcomes, IO
<1>2. PICK i \in Intents :
        \/ /\ \/ SubmitCommand(i, io) \/ QuoteCommand(i, io)
              \/ ApproveCommand(i, io) \/ ExecuteCommand(i, io)
           /\ UNCHANGED <<wallet, flight, issued>>
        \/ PrepareWithWallet(i, io) \/ ReceiptWithWallet(i, io)
  BY DEF CommandWithWallet
<1>3. CASE SubmitCommand(i, io) /\ UNCHANGED <<wallet, flight>>
  <2>1. Submit(i, io)
    BY <1>3 DEF SubmitCommand
  <2>2. store'.receipts = store.receipts /\ disk'.receipts \in {disk.receipts, store.receipts}
    <3>1. [store EXCEPT !.intents = @ \cup {i}].receipts = store.receipts
      BY <1>1 DEF TypeOK, Store
    <3> QED
      BY <2>1, <3>1 DEF Submit, Save
  <2> QED
    BY <1>1, <1>3, <2>1, <2>2, SubmitHandled, QuietCommand
<1>4. CASE QuoteCommand(i, io) /\ UNCHANGED <<wallet, flight>>
  <2>1. PICK q \in Quotes : HandleQuote(q, io)
    BY <1>4 DEF QuoteCommand
  <2>2. UNCHANGED <<store, disk>>
    BY <2>1 DEF HandleQuote, ReceiveQuote, ReceiveQuoteRefused, NoStoreChange
  <2> QED
    BY <1>1, <1>4, <2>1, <2>2, QuoteHandled, QuietCommand
<1>5. CASE ApproveCommand(i, io) /\ UNCHANGED <<wallet, flight>>
  <2>1. PICK q \in Quotes, h \in Hashes : Approve(i, q, h, io)
    BY <1>5 DEF ApproveCommand
  <2>2. store'.receipts = store.receipts /\ disk'.receipts \in {disk.receipts, store.receipts}
    <3>1. [store EXCEPT !.approvals = @ \cup {<<i, q, h>>}].receipts = store.receipts
      BY <1>1 DEF TypeOK, Store
    <3>2. Save([store EXCEPT !.approvals = @ \cup {<<i, q, h>>}], io)
      BY <2>1 DEF Approve
    <3> QED
      BY <3>1, <3>2 DEF Save
  <2> QED
    BY <1>1, <1>5, <2>1, <2>2, ApproveHandled, QuietCommand
<1>6. CASE ExecuteCommand(i, io) /\ UNCHANGED <<wallet, flight>>
  <2>1. Execute(i, io)
    BY <1>6 DEF ExecuteCommand
  <2>2. UNCHANGED <<store, disk>>
    BY <2>1 DEF Execute, NoStoreChange
  <2> QED
    BY <1>1, <1>6, <2>1, <2>2, ExecuteHandled, QuietCommand
<1>7. CASE PrepareWithWallet(i, io)
  BY <1>1, <1>7, PrepareWithWalletStep
<1>8. CASE ReceiptWithWallet(i, io)
  <2>1. PICK q \in Quotes, ref \in Refs, amount \in Amounts : HandleReceipt(i, q, ref, amount, io)
    BY <1>8 DEF ReceiptWithWallet
  <2>2. UNCHANGED <<wallet, flight>>
    BY <2>1 DEF HandleReceipt
  <2>3. CASE Verified(ref, amount) /\ ReceiptConfirmed(i, q, amount, ref, io)
    <3>1. Handled(io) /\ Unprepared
      BY <1>1, <2>3, ReceiptHandled
    <3>2. ReceiptsMove
      BY <1>1, <2>2, <2>3, BindingReceipt DEF ReceiptConfirmed
    <3> QED
      BY <1>1, <2>2, <3>1, <3>2 DEF Unprepared, WalletStep, PreparedMatches
  <2>4. CASE ReceiptMismatch(i, amount, io) \/ ReceiptUnverified(i, q, amount, io)
    <3>1. UNCHANGED <<store, disk>>
      BY <2>4 DEF ReceiptMismatch, ReceiptUnverified, NoStoreChange
    <3> QED
      BY <1>1, <2>2, <2>4, <3>1, ReceiptRefusedHandled, QuietCommand
  <2> QED
    BY <2>1, <2>3, <2>4 DEF HandleReceipt
<1> QED
  BY <1>2, <1>3, <1>4, <1>5, <1>6, <1>7, <1>8

\* The end of execute().
LEMMA SendReturnsStep ==
    ASSUME SettlementIInv, TypeOK', NEW i \in Intents, NEW io \in Outcomes, SendReturns(i, io)
    PROVE  /\ Handled(io) /\ WalletStep /\ PreparedMatches /\ ReceiptsMove
           /\ snapshot' = snapshot /\ flight' = flight
<1> DEFINE t == PreparedToken(rec[i])
<1>1. /\ ProcessIInv /\ TypeOK /\ TypeOK' /\ frame.intent = i
      /\ UNCHANGED <<wallet, flight, snapshot>> /\ SendOutcome(i, t, io)
  BY DEF SettlementIInv, SettlementTypeOK, ProcessTypeOK, SendReturns
<1>2. rec[i].state = "EXECUTING"
  BY <1>1 DEF ProcessIInv, ExecutingInHandler
<1>3. t \in Tokens
  <2>1. rec[i].prepared \in Hashes
    BY <1>1, <1>2, ApprovedHasHash DEF ApprovedOrLate, Late
  <2> QED
    BY <2>1 DEF PreparedToken, Hashes
<1>4. AnswerIsSuccess(i, t) => InvoiceHash[wallet[t].quote] \in Refs
  BY <1>1, SuccessHasRef
<1> HIDE DEF t
<1>5. CASE AnswerIsSuccess(i, t) /\ ExecuteSettled(i, InvoiceHash[wallet[t].quote], io)
  <2>1. Handled(io) /\ Unprepared
    BY <1>1, <1>2, <1>4, <1>5, ReturnHandled
  <2>2. Verified(InvoiceHash[wallet[t].quote], Amount[i])
    BY <1>3, <1>5 DEF AnswerIsSuccess, Verified, EntriesFor, Sent
  <2>3. Save([store EXCEPT !.receipts[i] = InvoiceHash[wallet[t].quote]], io)
    BY <1>5 DEF ExecuteSettled
  <2>4. ReceiptsMove
    BY <1>1, <2>2, <2>3, BindingReceipt
  <2> QED
    BY <1>1, <2>1, <2>4 DEF Unprepared, WalletStep, PreparedMatches
<1>6. CASE (\E event : ExecuteFailed(i, event, io)) \/ ExecuteRaised(i)
  <2>1. Handled(io) /\ Unprepared
    BY <1>1, <1>2, <1>6, ReturnHandled
  <2>2. UNCHANGED <<store, disk>>
    BY <1>6 DEF ExecuteFailed, ExecuteRaised, NoStoreChange
  <2> QED
    BY <1>1, <2>1, <2>2, QuietCommand
<1> QED
  BY <1>1, <1>5, <1>6 DEF SendOutcome

-----------------------------------------------------------------------------
(***************************************************************************)
(* The inductive invariant                                                 *)
(***************************************************************************)

\* The token of an execute() in progress was handed out for the quote in the
\* prepared hash, which is a quote of the intent.
LEMMA ExecutingToken ==
    ASSUME SettlementIInv, NEW i \in Intents, frame.intent = i
    PROVE  LET t == PreparedToken(rec[i])
           IN  /\ t \in Tokens
               /\ wallet[t].status # "free"
               /\ rec[i].prepared = <<wallet[t].quote, t>>
               /\ QuoteIntent[wallet[t].quote] = i
<1>1. rec[i].prepared \in Hashes
  BY ApprovedHasHash DEF SettlementIInv, ProcessIInv, ExecutingInHandler, ApprovedOrLate, Late
<1>2. rec[i].prepared # None
  BY <1>1, NoneAssumption DEF Hashes
<1> QED
  BY <1>1, <1>2 DEF SettlementIInv, MatchWallet, RecordMatches, PreparedToken, Hashes

\* Issuing a Send: the token it sends is that of the adapter call just made.
LEMMA IssueKeepsWallet ==
    ASSUME SettlementIInv, NEW i \in Intents, IssueSend(i)
    PROVE  WalletInv'
<1> DEFINE t == PreparedToken(rec[i])
<1>1. /\ UNCHANGED <<rec, store, disk, wallet, snapshot>>
      /\ frame.intent = i
      /\ flight' \subseteq flight \cup {t}
  BY DEF IssueSend, AdapterExecute
<1>2. /\ t \in Tokens /\ wallet[t].status # "free"
      /\ rec[i].prepared = <<wallet[t].quote, t>>
      /\ QuoteIntent[wallet[t].quote] = i
  BY <1>1, ExecutingToken
<1>3. /\ calls \in Seq(Call)
      /\ calls' = Append(calls, [intent |-> i, hash |-> <<wallet[t].quote, t>>])
  BY <1>2 DEF IssueSend, AdapterExecute, SettlementIInv, SettlementTypeOK, ProcessTypeOK, TypeOK
<1> HIDE DEF t
<1>4. /\ \A n \in DOMAIN calls : n \in DOMAIN calls' /\ calls'[n] = calls[n]
      /\ Len(calls) + 1 \in DOMAIN calls'
      /\ calls'[Len(calls) + 1] = [intent |-> i, hash |-> <<wallet[t].quote, t>>]
  BY <1>3
<1>5. SentWasDispatched'
  <2> SUFFICES ASSUME NEW u \in flight' \cup Sent
               PROVE  /\ wallet[u].status # "free"
                      /\ \E n \in DOMAIN calls' :
                           /\ calls'[n].intent = QuoteIntent[wallet[u].quote]
                           /\ calls'[n].hash = <<wallet[u].quote, u>>
    BY <1>1 DEF SentWasDispatched, Sent
  <2>1. CASE u = t
    BY <1>2, <1>4, <2>1
  <2>2. CASE u \in flight \cup Sent
    BY <1>4, <2>2 DEF SettlementIInv, SentWasDispatched
  <2> QED
    BY <1>1, <2>1, <2>2
<1>6. MatchWallet(rec)' /\ MatchWallet(snapshot)' /\ ReceiptsAreVerified'
  BY <1>1 DEF SettlementIInv, MatchWallet, RecordMatches, ReceiptsAreVerified, Verified,
              EntriesFor, Sent
<1> QED
  BY <1>5, <1>6 DEF WalletInv

\* A restored record matches the wallet that answered for it.
LEMMA RestoredMatches ==
    ASSUME NEW i \in Intents, NEW r \in Record, NEW status, status \in Evidence(i, r),
           RecordMatches(i, r)
    PROVE  RecordMatches(i, Restored(r, status))
<1> DEFINE new == Restored(r, status)
<1>1. /\ new.state = RestoredState(r) /\ new.prepared = r.prepared /\ new.quote = r.quote
      /\ new.reconciliation = IF new.state = "RECONCILIATION_REQUIRED" THEN status
                              ELSE r.reconciliation
  BY RestoredFields
<1> HIDE DEF new
<1>2. status = "COMPLETE"
        => r.prepared # None /\ Verified(InvoiceHash[r.prepared[1]], Amount[i])
  BY DEF Evidence, Verified
<1>3. new.reconciliation # None => new.state \in {"RECONCILIATION_REQUIRED", "SETTLED"}
  BY <1>1 DEF RecordMatches, RestoredState
<1>4. new.reconciliation = "COMPLETE"
        => r.prepared # None /\ Verified(InvoiceHash[r.prepared[1]], Amount[i])
  BY <1>1, <1>2 DEF RecordMatches
<1>5. RecordMatches(i, new)
  BY <1>1, <1>3, <1>4 DEF RecordMatches
<1> QED
  BY <1>5 DEF new

\* Restart and recovery: every record comes from the snapshot, or stays.
LEMMA RestoreKeepsWallet ==
    ASSUME SettlementIInv, RestartWithWallet \/ RecoverWithWallet \/ RecoverFailsWithWallet
    PROVE  WalletInv'
<1>1. PICK status \in Answers :
        Restart(status) \/ Recover(status) \/ \E io : RecoverFails(status, io)
  BY DEF RestartWithWallet, RecoverWithWallet, RecoverFailsWithWallet
<1>2. /\ UNCHANGED <<wallet, flight, calls, disk>> /\ snapshot' \in {rec', snapshot}
      /\ store' = disk \/ store' = store
  BY <1>1 DEF RestartWithWallet, RecoverWithWallet, RecoverFailsWithWallet,
              Restart, Recover, RecoverFails, Loaded
<1>3. ASSUME NEW i \in Intents PROVE RecordMatches(i, rec'[i])
  <2>1. snapshot[i] \in Record /\ RecordMatches(i, snapshot[i]) /\ RecordMatches(i, rec[i])
    BY DEF SettlementIInv, SettlementTypeOK, ProcessTypeOK, MatchWallet
  <2>2. RecordMatches(i, Restored(snapshot[i], status[i]))
    BY <2>1, RestoredMatches DEF Answers
  <2>3. RecordMatches(i, NoRecord)
    BY NoneAssumption DEF RecordMatches, NoRecord
  <2> QED
    BY <1>1, <2>1, <2>2, <2>3, FailedRestore DEF Restart, Recover, Restore
<1>4. MatchWallet(rec)' /\ MatchWallet(snapshot)'
  <2>1. ASSUME NEW i \in Intents PROVE RecordMatches(i, snapshot'[i])
    BY <1>2, <1>3 DEF SettlementIInv, MatchWallet
  <2> QED
    BY <1>2, <1>3, <2>1 DEF MatchWallet, RecordMatches, Verified, EntriesFor, Sent
<1>5. SentWasDispatched'
  BY <1>2 DEF SettlementIInv, SentWasDispatched, Sent
<1>6. ReceiptsAreVerified'
  BY <1>2 DEF SettlementIInv, ReceiptsAreVerified, Verified, EntriesFor, Sent
<1> QED
  BY <1>4, <1>5, <1>6 DEF WalletInv

\* A step of the wallet alone, a snapshot, a tick.
LEMMA OtherKeepsWallet ==
    ASSUME SettlementIInv, UNCHANGED <<rec, store, disk, calls>>, WalletStep,
           snapshot' \in {snapshot, rec}, flight' \subseteq flight
    PROVE  WalletInv'
<1>1. \A i \in Intents : MatchesAfter(i, rec[i]) /\ MatchesAfter(i, snapshot[i])
  BY MatchStays DEF SettlementIInv, SettlementTypeOK, ProcessTypeOK, TypeOK, MatchWallet
<1>2. MatchWallet(rec)' /\ MatchWallet(snapshot)'
  BY <1>1, MatchesInNextState
<1>3. ReceiptsMove
  BY DEF ReceiptsMove
<1> QED
  BY <1>2, <1>3, DispatchedStays, ReceiptsStay
  DEF SettlementIInv, SettlementTypeOK, WalletInv

\* The types of the wallet and of the adapter's own variables.
LEMMA SettlementType ==
    ASSUME SettlementTypeOK, ProcessIInv, [SettlementNext]_settlementVars
    PROVE  SettlementTypeOK'
<1>1. ProcessTypeOK'
  BY SettlementIsProcess, ProcessStep DEF ProcessIInv
<1> DEFINE Own == /\ now' \in 1 .. MaxTime
                  /\ wallet' \in [Tokens -> [status : WalletStatuses, quote : Quotes \cup {None},
                                             amount : Amounts \cup {0}]]
                  /\ flight' \subseteq Tokens
                  /\ issued' \in BOOLEAN
<1> SUFFICES Own
  BY <1>1 DEF SettlementTypeOK
<1> USE DEF SettlementTypeOK
<1>2. ASSUME NEW io \in Outcomes, CommandWithWallet(io) PROVE Own
  <2>1. CASE UNCHANGED <<wallet, flight, issued, now>>
    BY <2>1
  <2>2. ASSUME NEW i \in Intents, PrepareWithWallet(i, io) PROVE Own
    <3>1. UNCHANGED <<now, flight, issued>>
      BY <1>2, <2>2 DEF CommandWithWallet, PrepareWithWallet
    <3>2. PICK token \in Tokens, preview \in Previews :
            wallet' = [wallet EXCEPT ![token] =
                         [status |-> "prepared", quote |-> rec[i].quote,
                          amount |-> preview.amount]]
      BY <2>2 DEF PrepareWithWallet
    <3>3. rec[i].quote \in Quotes \cup {None} /\ preview.amount \in Amounts
      BY DEF ProcessTypeOK, TypeOK, Record, Previews
    <3>4. [status |-> "prepared", quote |-> rec[i].quote, amount |-> preview.amount]
            \in [status : WalletStatuses, quote : Quotes \cup {None}, amount : Amounts \cup {0}]
      BY <3>3 DEF WalletStatuses
    <3> QED
      BY <3>1, <3>2, <3>4
  <2> QED
    BY <1>2, <2>1, <2>2 DEF CommandWithWallet, ReceiptWithWallet, HandleReceipt
<1>3. ASSUME NEW i \in Intents, IssueSend(i) PROVE Own
  <2>1. frame.intent = i /\ UNCHANGED <<now, wallet>>
    BY <1>3 DEF IssueSend, AdapterExecute
  <2>2. rec[i].prepared \in Hashes
    BY <2>1, ApprovedHasHash DEF ProcessIInv, ExecutingInHandler, ApprovedOrLate, Late
  <2>3. PreparedToken(rec[i]) \in Tokens
    BY <2>2 DEF PreparedToken, Hashes
  <2>4. flight' \subseteq Tokens
    BY <1>3, <2>3 DEF IssueSend
  <2>5. issued' \in BOOLEAN
    BY <1>3 DEF IssueSend, MaySend
  <2> QED
    BY <2>1, <2>4, <2>5
<1>4. ASSUME NEW t \in Tokens, NEW amount \in Amounts, SendArrives(t, amount) PROVE Own
  <2>1. [wallet[t] EXCEPT !.status = "PENDING", !.amount = amount]
          \in [status : WalletStatuses, quote : Quotes \cup {None}, amount : Amounts \cup {0}]
    BY DEF WalletStatuses
  <2>2. wallet' = [wallet EXCEPT ![t] = [wallet[t] EXCEPT !.status = "PENDING", !.amount = amount]]
    BY <1>4 DEF SendArrives
  <2> QED
    BY <1>4, <2>1, <2>2 DEF SendArrives
<1>5. ASSUME NEW t \in Tokens, NEW status \in {"COMPLETE", "FAILED"}, PaymentEnds(t, status)
      PROVE  Own
  BY <1>5 DEF PaymentEnds, WalletStatuses
<1>6. ASSUME NEW t \in Tokens, SendRefused(t) PROVE Own
  BY <1>6 DEF SendRefused
<1>7. ASSUME SettlementTick PROVE Own
  BY <1>1, <1>7 DEF SettlementTick, ProcessTypeOK, TypeOK
<1>8. ASSUME \/ \E i \in Intents, io \in Outcomes : SendReturns(i, io)
             \/ RestartWithWallet \/ RecoverWithWallet \/ RecoverFailsWithWallet
             \/ SnapshotOnly
             \/ UNCHANGED settlementVars
      PROVE  Own
  BY <1>8 DEF SendReturns, RestartWithWallet, RecoverWithWallet, RecoverFailsWithWallet,
              SnapshotOnly, settlementVars
<1> QED
  BY <1>2, <1>3, <1>4, <1>5, <1>6, <1>7, <1>8 DEF SettlementNext

\* Every step preserves the invariant.
LEMMA SettlementStep ==
    ASSUME SettlementIInv, [SettlementNext]_settlementVars
    PROVE  SettlementIInv'
<1>1. SettlementTypeOK /\ ProcessIInv /\ flight \subseteq Tokens
  BY DEF SettlementIInv, SettlementTypeOK
<1>2. ProcessIInv' /\ SettlementTypeOK' /\ TypeOK'
  BY <1>1, SettlementIsProcess, ProcessStep, SettlementType DEF ProcessIInv, ProcessTypeOK
<1> SUFFICES WalletInv'
  BY <1>2 DEF SettlementIInv, WalletInv
<1>3. ASSUME NEW io \in Outcomes,
             CommandWithWallet(io) \/ \E i \in Intents : SendReturns(i, io)
      PROVE  WalletInv'
  BY <1>1, <1>2, <1>3, CommandWithWalletStep, SendReturnsStep, HandledKeepsWallet
<1>4. ASSUME NEW t \in Tokens,
             \/ \E amount \in Amounts : SendArrives(t, amount)
             \/ SendRefused(t)
             \/ \E status \in {"COMPLETE", "FAILED"} : PaymentEnds(t, status)
      PROVE  WalletInv'
  <2>1. WalletStep /\ flight' \subseteq flight
    <3>1. \A amount : SendArrives(t, amount) => WalletStep /\ flight' \subseteq flight
      BY <1>1 DEF SendArrives, SettlementTypeOK, WalletStep, Paying
    <3>2. SendRefused(t) => WalletStep /\ flight' \subseteq flight
      BY <1>1 DEF SendRefused, WalletStep
    <3>3. \A status \in {"COMPLETE", "FAILED"} :
            PaymentEnds(t, status) => WalletStep /\ flight' \subseteq flight
      BY <1>1 DEF PaymentEnds, SettlementTypeOK, WalletStep, Paying, Sent
    <3> QED
      BY <1>4, <3>1, <3>2, <3>3
  <2>2. UNCHANGED <<rec, store, disk, calls, snapshot>>
    BY <1>4 DEF SendArrives, SendRefused, PaymentEnds, processVars, vars
  <2> QED
    BY <2>1, <2>2, OtherKeepsWallet
<1>5. ASSUME SnapshotOnly \/ SettlementTick \/ UNCHANGED settlementVars
      PROVE  WalletInv'
  <2>1. UNCHANGED <<rec, store, disk, calls, wallet, flight>> /\ snapshot' \in {snapshot, rec}
    BY <1>5 DEF SnapshotOnly, CommandWithoutEffect, HandleLine, Snapshot, SnapshotFails,
                SettlementTick, ProcessTick, Tick, settlementVars, processVars, vars
  <2>2. WalletStep
    BY <2>1 DEF WalletStep
  <2> QED
    BY <2>1, <2>2, OtherKeepsWallet
<1> QED
  BY <1>3, <1>4, <1>5, IssueKeepsWallet, RestoreKeepsWallet DEF SettlementNext

\* The initial state satisfies the invariant.
LEMMA SettlementInitIInv == SettlementInit => SettlementIInv
<1> SUFFICES ASSUME SettlementInit PROVE SettlementIInv
  OBVIOUS
<1>1. ProcessIInv /\ ProcessTypeOK
  BY ProcessInitIInv DEF SettlementInit, ProcessIInv
<1>2. \A t \in Tokens : wallet[t] = NoToken
  BY DEF SettlementInit
<1>3. SettlementTypeOK
  BY <1>1 DEF SettlementInit, SettlementTypeOK, NoToken, WalletStatuses, ProcessTypeOK, TypeOK
<1>4. \A i \in Intents : RecordMatches(i, NoRecord)
  BY NoneAssumption DEF RecordMatches, NoRecord
<1>5. MatchWallet(rec) /\ MatchWallet(snapshot)
  BY <1>4 DEF MatchWallet, SettlementInit, ProcessInit, Init
<1>6. SentWasDispatched
  BY <1>2 DEF SettlementInit, SentWasDispatched, Sent, NoToken
<1>7. ReceiptsAreVerified
  BY DEF SettlementInit, ProcessInit, Init, EmptyStore, ReceiptsAreVerified
<1> QED
  BY <1>1, <1>3, <1>5, <1>6, <1>7 DEF SettlementIInv

\* THEOREM.  The records agree with the wallet, what was sent was dispatched, and
\* receipts are of completed sends, in every reachable state.
THEOREM SettlementInvariance == SettlementSpec => []SettlementIInv
<1>1. SettlementIInv /\ [SettlementNext]_settlementVars => SettlementIInv'
  BY SettlementStep
<1> QED
  BY <1>1, SettlementInitIInv, PTL DEF SettlementSpec

-----------------------------------------------------------------------------
(***************************************************************************)
(* What follows                                                            *)
(***************************************************************************)

\* THEOREM.  Every reachable state of the process and its wallet is well typed.
THEOREM SettlementTypeCorrect == SettlementSpec => []SettlementTypeOK
<1>1. SettlementIInv => SettlementTypeOK
  BY DEF SettlementIInv
<1> QED
  BY <1>1, SettlementInvariance, PTL

\* A payment of an intent was dispatched for it, with the hash of its token.
LEMMA PaymentWasDispatched ==
    ASSUME SettlementIInv, NEW i \in Intents, NEW t \in Payments(i)
    PROVE  \E n \in DOMAIN calls :
             calls[n].intent = i /\ calls[n].hash = <<wallet[t].quote, t>>
BY DEF SettlementIInv, SentWasDispatched, Payments, Sent

\* A payment is tracked by the record of its intent.
LEMMA TrackedPayment == SettlementIInv => PaymentIsTracked
<1> SUFFICES ASSUME SettlementIInv, lost = {}, NEW i \in Intents, NEW t \in Payments(i)
             PROVE  rec[i].prepared = <<wallet[t].quote, t>> /\ rec[i].state \in ApprovedOrLate
  BY DEF PaymentIsTracked, ApprovedOrLate, Late
<1>1. PICK n \in DOMAIN calls :
        calls[n].intent = i /\ calls[n].hash = <<wallet[t].quote, t>>
  BY PaymentWasDispatched
<1>2. /\ rec[calls[n].intent].state \in ApprovedOrLate
      /\ rec[calls[n].intent].prepared = calls[n].hash
  BY DEF SettlementIInv, ProcessIInv, SnapshotsAreComplete
<1> QED
  BY <1>1, <1>2

\* What the invariant says about money, in every state in which it holds.
LEMMA PaymentSafety == SettlementIInv => PaidAtMostOnce /\ PaidAsApproved /\ SettledIsPaid
<1>1. SettlementIInv => PaidAtMostOnce
  <2> SUFFICES ASSUME SettlementIInv, lost = {}, NEW i \in Intents
               PROVE  Cardinality(Payments(i)) <= 1
    BY DEF PaidAtMostOnce
  <2>1. \A t \in Payments(i) : rec[i].prepared = <<wallet[t].quote, t>>
    BY TrackedPayment DEF PaymentIsTracked
  <2>2. CASE Payments(i) = {}
    BY <2>2, FS_EmptySet
  <2>3. CASE Payments(i) # {}
    <3>1. PICK t : t \in Payments(i)
      BY <2>3
    <3>2. Payments(i) = {t}
      BY <2>1, <3>1
    <3> QED
      BY <3>2, FS_Singleton
  <2> QED
    BY <2>2, <2>3
<1>2. SettlementIInv => PaidAsApproved
  <2> SUFFICES ASSUME SettlementIInv, NEW i \in Intents, NEW t \in Payments(i)
               PROVE  \E q \in Quotes : <<i, q, <<wallet[t].quote, t>>>> \in disk.approvals
    BY DEF PaidAsApproved
  <2>1. PICK n \in DOMAIN calls :
          calls[n].intent = i /\ calls[n].hash = <<wallet[t].quote, t>>
    BY PaymentWasDispatched
  <2>2. PICK q \in Quotes : <<calls[n].intent, q, calls[n].hash>> \in disk.approvals
    BY DEF SettlementIInv, ProcessIInv, ApprovedBeforeDispatch
  <2> QED
    BY <2>1, <2>2
<1>3. SettlementIInv => SettledIsPaid
  BY DEF SettlementIInv, ProcessIInv, Backed, ReceiptsAreVerified, SettledIsPaid
<1> QED
  BY <1>1, <1>2, <1>3

\* THEOREM.  The wallet pays only with tokens that a human has approved, in the payload
\* they were prepared with and for the intent they pay, through every restart and
\* late arrival.
THEOREM PaidOnlyAsApproved == SettlementSpec => []PaidAsApproved
BY PaymentSafety, SettlementInvariance, PTL

\* THEOREM.  An intent is shown as settled only with a receipt, on disk, of a completed
\* send of exactly its amount.
THEOREM SettledOnlyWhenPaid == SettlementSpec => []SettledIsPaid
BY PaymentSafety, SettlementInvariance, PTL

\* THEOREM.  Unless a save or a snapshot was lost, an intent is paid at most once: all
\* its payments are with the token of the one hash its record holds.
THEOREM NeverPaidTwice == SettlementSpec => []PaidAtMostOnce
BY PaymentSafety, SettlementInvariance, PTL

\* THEOREM.  Unless a save or a snapshot was lost, the record of an intent that is being
\* paid holds the payload of that payment and leads to settlement.
THEOREM PaymentStaysTracked == SettlementSpec => []PaymentIsTracked
BY TrackedPayment, SettlementInvariance, PTL

\* THEOREM.  COMPLETE evidence in a record is of a completed send of the payload in that
\* record, also when it was taken by an earlier process.
THEOREM EvidenceOnlyOfSends == SettlementSpec => []EvidenceIsTrue
<1>1. SettlementIInv => EvidenceIsTrue
  BY DEF SettlementIInv, MatchWallet, RecordMatches, EvidenceIsTrue
<1> QED
  BY <1>1, SettlementInvariance, PTL
==============================================================================
