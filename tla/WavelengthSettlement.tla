------------------------- MODULE WavelengthSettlement -------------------------
(***************************************************************************)
(* The sender's process with the WavelengthAdapter of adapter.py and the   *)
(* wallet daemon behind it.                                                *)
(*                                                                         *)
(* The adapter keeps no state: its calls are queries and one Send.  The    *)
(* wallet is outside, modelled from how the adapter uses it: PrepareSend   *)
(* hands out single-use tokens, Send pays with one, and the activity lists *)
(* what was sent.  A Send request lives on after the command that issued   *)
(* it has timed out or the process has been killed, and may arrive late or *)
(* not at all.  The wallet is trusted to name the hash of the invoice it   *)
(* was asked to pay; the amounts it reports are checked.                   *)
(***************************************************************************)
EXTENDS HermesProcess

CONSTANTS
    InvoiceHash,      \* the payment hash of the invoice in a quote
    TokenExpires      \* when a token of the wallet expires

ASSUME WalletAssumption ==
    /\ InvoiceHash \in [Quotes -> Refs]
    /\ TokenExpires \in [Tokens -> Nat]
    /\ AdapterRail \in Rails

VARIABLES
    now,        \* the time of day, which the adapter reads by itself
    wallet,     \* the tokens, and the activity entries of those that were sent
    flight,     \* tokens of Send requests that have not reached the wallet
    issued      \* the execute() under way has issued its Send

settlementVars == <<processVars, now, wallet, flight, issued>>

NoToken == [status |-> "free", quote |-> None, amount |-> 0]

WalletStatuses == {"free", "prepared", "PENDING", "COMPLETE", "FAILED"}

SettlementTypeOK ==
    /\ ProcessTypeOK
    /\ now \in 1 .. MaxTime
    /\ wallet \in [Tokens -> [status : WalletStatuses, quote : Quotes \cup {None},
                              amount : Amounts \cup {0}]]
    /\ flight \subseteq Tokens
    /\ issued \in BOOLEAN

SettlementInit ==
    /\ ProcessInit
    /\ now = clock
    /\ wallet = [t \in Tokens |-> NoToken]
    /\ flight = {}
    /\ issued = FALSE

-----------------------------------------------------------------------------
(* What the adapter reads from the wallet's answers *)

\* The activity: the tokens that were sent.
Sent == {t \in Tokens : wallet[t].status \in {"PENDING", "COMPLETE", "FAILED"}}

\* The entries _activity_entries finds for a payment hash.
EntriesFor(hash) == {t \in Sent : InvoiceHash[wallet[t].quote] = hash}

\* What prepare() demands of a preview: all binding fields known, not expired, the
\* amount asked for, a fee within the limit, and a total that adds up.
PreviewAccepted(i, token, preview) ==
    /\ preview.known
    /\ TokenExpires[token] > now
    /\ preview.amount = Amount[i]
    /\ preview.fee <= MaxFee[i]
    /\ preview.total = preview.amount + preview.fee

Previews == [known : BOOLEAN, amount : Amounts, fee : Fees,
             total : {a + f : a \in Amounts, f \in Fees}]

\* The token that execute() takes from the prepared payload.
OtherToken(r) ==
    IF \E t \in Tokens \ {r.prepared[2]} : wallet[t].status = "prepared"
    THEN CHOOSE t \in Tokens \ {r.prepared[2]} : wallet[t].status = "prepared"
    ELSE r.prepared[2]
PreparedToken(r) == r.prepared[2]

\* execute() reports success for a COMPLETE entry with the prepared amount and hash.
AnswerWithoutAmount(i, t) == wallet[t].status = "COMPLETE"
AnswerIsSuccess(i, t) ==
    /\ wallet[t].status = "COMPLETE"
    /\ wallet[t].amount = Amount[i]
    /\ InvoiceHash[wallet[t].quote] = InvoiceHash[rec[i].prepared[1]]

\* verify_sender_settlement finds a COMPLETE send of that hash and amount.
VerifiedOnceSent(ref, amount) == \E t \in EntriesFor(ref) : wallet[t].amount = amount
Verified(ref, amount) ==
    \E t \in EntriesFor(ref) :
        wallet[t].status = "COMPLETE" /\ wallet[t].amount = amount

\* What reconcile_settlement may return for a record: the status of a matching
\* entry if it is COMPLETE or PENDING, or UNKNOWN; the query itself may fail.
EvidenceOfAnyAmount(i, r) ==
    {"UNKNOWN"} \cup
    IF r.prepared = None THEN {}
    ELSE {wallet[t].status : t \in EntriesFor(InvoiceHash[r.prepared[1]])}
Evidence(i, r) ==
    {"UNKNOWN"} \cup
    IF r.prepared = None THEN {}
    ELSE {wallet[t].status :
            t \in {u \in EntriesFor(InvoiceHash[r.prepared[1]]) :
                     /\ wallet[u].amount = Amount[i]
                     /\ wallet[u].status \in {"COMPLETE", "PENDING"}}}

-----------------------------------------------------------------------------
(* Commands that reach the wallet *)

\* prepare: PrepareSend returns a fresh token with a preview.
PrepareWithWallet(i, io) ==
    /\ io \in LogIO
    /\ \E token \in Tokens, preview \in Previews :
         /\ wallet[token].status = "free"
         /\ PreviewAccepted(i, token, preview)
         /\ Prepare(i, token, preview.fee, AdapterRail, io)
         /\ wallet' = [wallet EXCEPT ![token] =
                         [status |-> "prepared", quote |-> rec[i].quote,
                          amount |-> preview.amount]]
    /\ UNCHANGED <<flight, issued>>

\* accept_receipt: receive_receipt asks the adapter; the query may also fail.
HandleReceipt(i, q, ref, amount, io) ==
    /\ \/ Verified(ref, amount) /\ ReceiptConfirmed(i, q, amount, ref, io)
       \/ io \in LogIO /\ ReceiptMismatch(i, amount, io)
       \/ io \in LogIO /\ ReceiptUnverified(i, q, amount, io)
    /\ UNCHANGED <<wallet, flight, issued>>

ReceiptWithWallet(i, io) ==
    \E q \in Quotes, ref \in Refs, amount \in Amounts : HandleReceipt(i, q, ref, amount, io)

CommandWithWallet(io) ==
    /\ HandleLine(io)
    /\ \E i \in Intents :
         \/ /\ \/ SubmitCommand(i, io)
               \/ QuoteCommand(i, io)
               \/ ApproveCommand(i, io)
               \/ ExecuteCommand(i, io)
            /\ UNCHANGED <<wallet, flight, issued>>
         \/ PrepareWithWallet(i, io)
         \/ ReceiptWithWallet(i, io)
    /\ UNCHANGED now

\* execute() of the adapter: the Send is issued unless the token has expired.
MaySend(t) == TokenExpires[t] > now
IssueSend(i) ==
    /\ AdapterExecute(i)
    /\ LET t == PreparedToken(rec[i])
       IN  /\ issued' = MaySend(t)
           /\ flight' = IF MaySend(t) THEN flight \cup {t} ELSE flight
    /\ UNCHANGED <<now, wallet, snapshot, dirty, lost>>

\* How execute() of the adapter ends.  An expired token is an error.  After the
\* Send it is success as the entry shows it (a wallet may answer a repeated Send
\* with the entry of the first); an error, for a FAILED entry or an answer
\* without one; something else, for an entry with malformed numbers; else, and
\* whenever the answer is lost or late, ambiguous.
SendOutcome(i, t, io) ==
    \/ issued /\ AnswerIsSuccess(i, t) /\ ExecuteSettled(i, InvoiceHash[wallet[t].quote], io)
    \/ io \in LogIO /\ ExecuteFailed(i, "adapter_error", io)
    \/ issued /\ io \in LogIO /\ ExecuteFailed(i, "adapter_ambiguous", io)
    \/ issued /\ io = "ok" /\ t \in Sent /\ ExecuteRaised(i)

SendReturns(i, io) ==
    /\ frame = [intent |-> i, sent |-> TRUE]
    /\ SendOutcome(i, PreparedToken(rec[i]), io)
    /\ issued' = FALSE
    /\ Losing(io)
    /\ UNCHANGED <<now, wallet, flight, snapshot, dirty>>

\* Restart and recover, with the reconciliation answered from the activity.
Answers ==
    {status \in [Intents -> Statuses] : \A i \in Intents : status[i] \in Evidence(i, snapshot[i])}

RestartWithWallet ==
    /\ \E status \in Answers : Restart(status)
    /\ issued' = FALSE
    /\ UNCHANGED <<now, wallet, flight>>

RecoverWithWallet ==
    /\ \E status \in Answers : Recover(status)
    /\ UNCHANGED <<now, wallet, flight, issued>>

RecoverFailsWithWallet ==
    /\ \E status \in Answers, io \in WriteFaults : RecoverFails(status, io)
    /\ UNCHANGED <<now, wallet, flight, issued>>

-----------------------------------------------------------------------------
(* The wallet *)

\* A Send request reaches the wallet, which pays if the token is unused.
SendArrives(t, amount) ==
    /\ t \in flight
    /\ wallet[t].status = "prepared"
    /\ wallet' = [wallet EXCEPT ![t].status = "PENDING", ![t].amount = amount]
    /\ flight' = flight \ {t}
    /\ UNCHANGED <<processVars, now, issued>>

\* It is lost, or refused: the token is used or expired, or there are no funds.
SendRefused(t) ==
    /\ t \in flight
    /\ flight' = flight \ {t}
    /\ UNCHANGED <<processVars, now, wallet, issued>>

PaymentEnds(t, status) ==
    /\ wallet[t].status = "PENDING"
    /\ wallet' = [wallet EXCEPT ![t].status = status]
    /\ UNCHANGED <<processVars, now, flight, issued>>

\* The snapshot.
SnapshotOnly ==
    /\ CommandWithoutEffect \/ Snapshot \/ SnapshotFails
    /\ UNCHANGED <<now, wallet, flight, issued>>

\* Time passes, for the adapter and for the clock given to the process.
SettlementTick ==
    /\ ProcessTick
    /\ now' = clock'
    /\ UNCHANGED <<wallet, flight, issued>>

SettlementNext ==
    \/ \E io \in Outcomes :
         \/ CommandWithWallet(io)
         \/ \E i \in Intents : SendReturns(i, io)
    \/ \E i \in Intents : IssueSend(i)
    \/ RestartWithWallet
    \/ RecoverWithWallet
    \/ RecoverFailsWithWallet
    \/ SnapshotOnly
    \/ SettlementTick
    \/ \E t \in Tokens :
         \/ \E amount \in Amounts : SendArrives(t, amount)
         \/ SendRefused(t)
         \/ \E status \in {"COMPLETE", "FAILED"} : PaymentEnds(t, status)

SettlementSpec == SettlementInit /\ [][SettlementNext]_settlementVars

-----------------------------------------------------------------------------
(* Properties *)

\* The tokens that move money for an intent.
Payments(i) ==
    {t \in Tokens : /\ wallet[t].status \in {"PENDING", "COMPLETE"}
                    /\ QuoteIntent[wallet[t].quote] = i}

\* SAFETY.  An intent is paid at most once, although a process killed during
\* execute() dispatches it again and Sends arrive late.  It needs the snapshots:
\* with two of them lost, a killed process prepares and pays anew.
PaidAtMostOnce ==
    lost = {} => \A i \in Intents : Cardinality(Payments(i)) <= 1

\* SAFETY.  The wallet pays only with tokens whose prepared payload a human has
\* approved for that intent: the Send consumes what was approved, never a
\* payload prepared before or after it.
PaidAsApproved ==
    \A i \in Intents : \A t \in Payments(i) :
        \E q \in Quotes : <<i, q, <<wallet[t].quote, t>>>> \in disk.approvals

\* SAFETY.  A settled intent names a completed send of exactly its amount.
SettledIsPaid ==
    \A i \in Intents :
        rec[i].state = "SETTLED" => Verified(disk.receipts[i], Amount[i])

\* SAFETY.  COMPLETE evidence of a record, taken before a restart or after it, is
\* about a completed send of the record's payload and amount.
EvidenceIsTrue ==
    \A i \in Intents :
        rec[i].reconciliation = "COMPLETE"
            => Verified(InvoiceHash[rec[i].prepared[1]], Amount[i])

\* SAFETY.  The sender never forgets money that is on its way: unless a save or a
\* snapshot was lost, the record still holds the payload of the payment and is in
\* a state that leads to settlement, through every kill and late arrival.
PaymentIsTracked ==
    lost = {} =>
        \A i \in Intents : \A t \in Payments(i) :
            /\ rec[i].prepared = <<wallet[t].quote, t>>
            /\ rec[i].state \in {"APPROVED", "EXECUTING", "RECONCILIATION_REQUIRED", "SETTLED"}

-----------------------------------------------------------------------------
(* The inductive invariant behind the safety properties *)

\* Records, in memory or in the snapshot, agree with the wallet.  A record's quotes are
\* of its intent, its prepared hash names a token handed out for that quote, and
\* evidence belongs to reconciliation; COMPLETE evidence is of a completed send.
RecordMatches(i, r) ==
    /\ r.quote # None => QuoteIntent[r.quote] = i
    /\ r.prepared # None
         => /\ QuoteIntent[r.prepared[1]] = i
            /\ wallet[r.prepared[2]].quote = r.prepared[1]
            /\ wallet[r.prepared[2]].status # "free"
    /\ r.reconciliation # None => r.state \in {"RECONCILIATION_REQUIRED", "SETTLED"}
    /\ r.reconciliation = "COMPLETE"
         => r.prepared # None /\ Verified(InvoiceHash[r.prepared[1]], Amount[i])

MatchWallet(records) == \A i \in Intents : RecordMatches(i, records[i])

\* What is on its way to the wallet, or was sent by it, was handed to the adapter for
\* the intent of its quote, and never is a free token again.
SentWasDispatched ==
    \A t \in flight \cup Sent :
        /\ wallet[t].status # "free"
        /\ \E n \in DOMAIN calls :
             /\ calls[n].intent = QuoteIntent[wallet[t].quote]
             /\ calls[n].hash = <<wallet[t].quote, t>>

\* A receipt, in memory or on disk, is bound only after a completed send of its
\* reference and amount was found.
ReceiptsAreVerified ==
    \A i \in Intents :
        /\ store.receipts[i] # None => Verified(store.receipts[i], Amount[i])
        /\ disk.receipts[i] # None => Verified(disk.receipts[i], Amount[i])

\* SAFETY.  The files and records of the process and the activity of the wallet stay in
\* step, over kills, timeouts and late Sends: what the safety of payments rests on.
SettlementIInv ==
    /\ SettlementTypeOK
    /\ ProcessIInv
    /\ MatchWallet(rec)
    /\ MatchWallet(snapshot)
    /\ SentWasDispatched
    /\ ReceiptsAreVerified
==============================================================================
