----------------------------- MODULE HermesPeers -----------------------------
(***************************************************************************)
(* The deployed system: the sender's process (alice), the recipient's      *)
(* process (bob), each a HermesPeer over the channel, and the rail that    *)
(* carries the payment from one wallet to the other.                       *)
(*                                                                         *)
(* Alice is WavelengthSettlement with her commands tied to the messages in *)
(* her inbox; Bob is a HermesProcess of his own.  run_hermes.py gives a    *)
(* process no clock, so the policy engines read the same time for ever     *)
(* (clock does not move), while the transport and the adapter read now.    *)
(*                                                                         *)
(* Either process may be killed at any moment.  Writes succeed here; the   *)
(* failing ones are in the modules of the parts.                           *)
(***************************************************************************)
EXTENDS WavelengthSettlement

\* A receipt may state the amount of the intent.
ASSUME AmountAssumption == \A i \in Intents : Amount[i] \in Amounts

VARIABLES
    bRec, bOrder, bStore, bDisk, bAudit, bFrame, bCalls,  \* bob's policy engine
    bSnapshot, bDirty, bLost,                             \* and his process
    channel,    \* for each peer, the messages of the relay its cursor does not have
    inbox,      \* for each peer, the messages in _inbox
    saved,      \* for each peer, the inbox in process_state.json
    received    \* the tokens whose payment has reached the wallet of bob

Bob == INSTANCE HermesProcess
         WITH rec <- bRec, order <- bOrder, store <- bStore, disk <- bDisk,
              audit <- bAudit, frame <- bFrame, calls <- bCalls,
              snapshot <- bSnapshot, dirty <- bDirty, lost <- bLost

policyVars == <<rec, order, store, disk, audit, frame, calls>>
aliceVars == <<policyVars, snapshot, dirty, lost, issued>>
bobPolicyVars == <<bRec, bOrder, bStore, bDisk, bAudit, bFrame, bCalls>>
bobVars == <<bobPolicyVars, bSnapshot, bDirty, bLost>>
messageVars == <<channel, inbox, saved>>
railVars == <<wallet, flight, received>>
peersVars == <<settlementVars, bobVars, messageVars, received>>

-----------------------------------------------------------------------------
(* Messages *)

Peers == {"alice", "bob"}

\* A message stands for all events with its content: a second event with it is a
\* replay to whoever has the first one.
IntentMessage(i) == <<"intent", i>>
QuoteMessage(q) == <<"quote", q>>
ReceiptMessage(i, q, ref, amount) == <<"receipt", i, q, ref, amount>>

Messages ==
    {IntentMessage(i) : i \in Intents} \cup {QuoteMessage(q) : q \in Quotes}
    \cup {ReceiptMessage(i, q, ref, amount) :
            i \in Intents, q \in Quotes, ref \in Refs, amount \in Amounts}

\* validate_received_event drops what has expired; a receipt does not expire, nor does
\* what has no time limit.
Stale(m) ==
    \/ \E i \in Intents : m = IntentMessage(i) /\ IntentExpires[i] # 0 /\ now > IntentExpires[i]
    \/ \E q \in Quotes : m = QuoteMessage(q) /\ QuoteExpires[q] # 0 /\ now > QuoteExpires[q]

PeersTypeOK ==
    /\ SettlementTypeOK
    /\ Bob!ProcessTypeOK
    /\ channel \in [Peers -> SUBSET Messages]
    /\ inbox \in [Peers -> SUBSET Messages]
    /\ saved \in [Peers -> SUBSET Messages]
    /\ received \subseteq Tokens

PeersInit ==
    /\ SettlementInit
    /\ Bob!ProcessInit
    /\ channel = [p \in Peers |-> {}]
    /\ inbox = [p \in Peers |-> {}]
    /\ saved = [p \in Peers |-> {}]
    /\ received = {}

\* HermesPeer.send: the event is on the relay, and new to the peer.
Send(p, m) == channel' = [channel EXCEPT ![p] = @ \cup {m}]

\* The receive command, when the query and the limit let through batch: its events
\* are marked as seen, and the cursor is saved, before they join the inbox.
Take(p, batch) ==
    /\ channel' = [channel EXCEPT ![p] = @ \ batch]
    /\ inbox' = [inbox EXCEPT ![p] = @ \cup {m \in batch : ~Stale(m)}]
    /\ UNCHANGED saved

\* _maybe_recover restores the inbox of a new process.
InboxForgotten(p) == inbox' = [inbox EXCEPT ![p] = {}]
InboxRestored(p) == inbox' = [inbox EXCEPT ![p] = saved[p]]

InboxSaved(p) == saved' = [saved EXCEPT ![p] = inbox[p]]

-----------------------------------------------------------------------------
(* The sender *)

\* Nothing but the sender's process, and what is named besides, changes.
AliceOnly == UNCHANGED <<now, bobVars, received>>

\* submit_intent submits and then sends, and the send may fail.  For an id of the store
\* submit() returns at once, whatever has become of the intent and its time limit, and
\* the intent is sent again.  While bob still has an event with it before him, another
\* one is no news, and a repeated send that fails changes nothing.
SubmitOnce(i) ==
    /\ HandleLine("ok")
    /\ SubmitCommand(i, "ok")
    /\ Send("bob", IntentMessage(i)) \/ UNCHANGED channel
    /\ UNCHANGED <<inbox, saved, wallet, flight, issued>>
    /\ AliceOnly
SubmitIntent(i) ==
    /\ HandleLine("ok")
    /\ \/ /\ SubmitCommand(i, "ok")
          /\ Send("bob", IntentMessage(i)) \/ UNCHANGED channel
       \/ /\ Idle
          /\ HasIntent(i)
          /\ IntentMessage(i) \notin channel["bob"]
          /\ Send("bob", IntentMessage(i))
          /\ UNCHANGED vars
    /\ UNCHANGED <<inbox, saved, wallet, flight, issued>>
    /\ AliceOnly

AliceReceives(batch) ==
    /\ HandleLine("ok")
    /\ Idle
    /\ Take("alice", batch)
    /\ UNCHANGED <<vars, wallet, flight, issued>>
    /\ AliceOnly

AcceptQuote(q) ==
    /\ QuoteMessage(q) \in inbox["alice"]
    /\ HandleLine("ok")
    /\ HandleQuote(q, "ok")
    /\ UNCHANGED <<messageVars, wallet, flight, issued>>
    /\ AliceOnly

\* prepare, approve, and execute up to the adapter.
PayCommand(i) ==
    /\ HandleLine("ok")
    /\ \/ PrepareWithWallet(i, "ok")
       \/ /\ ApproveCommand(i, "ok") \/ ExecuteCommand(i, "ok")
          /\ UNCHANGED <<wallet, flight, issued>>
    /\ UNCHANGED messageVars
    /\ AliceOnly

AcceptReceipt(i, q, ref, amount) ==
    /\ ReceiptMessage(i, q, ref, amount) \in inbox["alice"]
    /\ HandleLine("ok")
    /\ HandleReceipt(i, q, ref, amount, "ok")
    /\ UNCHANGED messageVars
    /\ AliceOnly

\* execute() goes on in the adapter and comes back.
AliceExecutes ==
    /\ \E i \in Intents : IssueSend(i) \/ SendReturns(i, "ok")
    /\ UNCHANGED messageVars
    /\ AliceOnly

AliceSnapshot ==
    /\ Snapshot
    /\ InboxSaved("alice")
    /\ UNCHANGED <<channel, inbox, wallet, flight, issued>>
    /\ AliceOnly

AliceKilled ==
    /\ RestartWithWallet
    /\ InboxRestored("alice")
    /\ UNCHANGED <<channel, saved>>
    /\ AliceOnly

AliceRecovers ==
    /\ RecoverWithWallet
    /\ UNCHANGED messageVars
    /\ AliceOnly

-----------------------------------------------------------------------------
(* The recipient *)

BobOnly == UNCHANGED <<aliceVars, now, railVars>>

BobReceives(batch) ==
    /\ Bob!HandleLine("ok")
    /\ Take("bob", batch)
    /\ UNCHANGED <<bobPolicyVars, clock, faults>>
    /\ BobOnly

AcceptIntent(i) ==
    /\ IntentMessage(i) \in inbox["bob"]
    /\ Bob!HandleLine("ok")
    /\ Bob!SubmitCommand(i, "ok")
    /\ UNCHANGED messageVars
    /\ BobOnly

\* A command of bob that sends m and changes no record.  While alice still has an
\* event with m before her, another one is no news.
Publish(m) ==
    /\ m \notin channel["alice"]
    /\ Bob!HandleLine("ok")
    /\ Send("alice", m)
    /\ UNCHANGED <<bobPolicyVars, clock, faults, inbox, saved>>
    /\ BobOnly

\* publish_quote sends first and looks for the intent afterwards.
PublishQuote(q) == Publish(QuoteMessage(q))

\* publish_receipt sends any receipt it is given.
PublishReceipt(i, q, ref, amount) == Publish(ReceiptMessage(i, q, ref, amount))

\* The incoming payments verify_receipt looks for in bob's activity.
ReceivedWith(ref, amount) ==
    {t \in received : InvoiceHash[wallet[t].quote] = ref /\ wallet[t].amount = amount}

\* verify_publish_receipt, for an intent bob has a record of.
VerifyPublishReceipt(i, q, ref) ==
    /\ i \in Bob!Tracked
    /\ ReceivedWith(ref, Amount[i]) # {}
    /\ Publish(ReceiptMessage(i, q, ref, Amount[i]))

BobSnapshot ==
    /\ Bob!Snapshot
    /\ InboxSaved("bob")
    /\ UNCHANGED <<channel, inbox>>
    /\ BobOnly

\* His records never wait for reconciliation.
BobKilled ==
    /\ Bob!Restart([i \in Intents |-> "UNKNOWN"])
    /\ InboxRestored("bob")
    /\ UNCHANGED <<channel, saved>>
    /\ BobOnly

-----------------------------------------------------------------------------
(* The rail, and time *)

RailOnly == UNCHANGED <<bobVars, messageVars>>

\* The payment reaches bob's wallet before alice's wallet knows how it ended.
PaymentArrives(t) ==
    /\ wallet[t].status = "PENDING"
    /\ received' = received \cup {t}
    /\ UNCHANGED settlementVars
    /\ RailOnly

PaymentCompletes(t) ==
    /\ t \in received
    /\ PaymentEnds(t, "COMPLETE")
    /\ UNCHANGED received
    /\ RailOnly

PaymentFails(t) ==
    /\ t \notin received
    /\ PaymentEnds(t, "FAILED")
    /\ UNCHANGED received
    /\ RailOnly

SendEnds(t) ==
    /\ SendRefused(t) \/ \E amount \in Amounts : SendArrives(t, amount)
    /\ UNCHANGED received
    /\ RailOnly

TimePasses ==
    /\ now < MaxTime
    /\ now' = now + 1
    /\ UNCHANGED <<processVars, issued, railVars>>
    /\ RailOnly

-----------------------------------------------------------------------------
(* Specification *)

ReceiptStep(i, q, ref, amount) ==
    \/ AcceptReceipt(i, q, ref, amount)
    \/ PublishReceipt(i, q, ref, amount)

PeersNext ==
    \/ \E i \in Intents : SubmitIntent(i) \/ PayCommand(i) \/ AcceptIntent(i)
    \/ \E q \in Quotes : AcceptQuote(q) \/ PublishQuote(q)
    \/ \E i \in Intents, q \in Quotes, ref \in Refs :
         \/ VerifyPublishReceipt(i, q, ref)
         \/ \E amount \in Amounts : ReceiptStep(i, q, ref, amount)
    \/ \E batch \in SUBSET channel["alice"] : batch # {} /\ AliceReceives(batch)
    \/ \E batch \in SUBSET channel["bob"] : batch # {} /\ BobReceives(batch)
    \/ AliceExecutes
    \/ AliceSnapshot \/ BobSnapshot
    \/ AliceKilled \/ BobKilled
    \/ AliceRecovers
    \/ \E t \in Tokens :
         PaymentArrives(t) \/ PaymentCompletes(t) \/ PaymentFails(t) \/ SendEnds(t)
    \/ TimePasses

PeersSpec == PeersInit /\ [][PeersNext]_peersVars

\* What the peer has not been handed, and would be handed by a receive command.
Waiting(p) == {m \in channel[p] \ inbox[p] : ~Stale(m)}

\* The operators send again what the other one tells them is not there.
Missing(p, m) == m \notin channel[p] \cup inbox[p] /\ ~Stale(m)

\* The commands by which the operators follow the flow of docs/TESTING.md.  Each
\* brings the payment forward, so that they cannot be repeated for ever.
AliceWork ==
    /\ HandleLine("ok")
    /\ \/ \E i \in Intents :
            /\ HasIntent(i)
            /\ Missing("bob", IntentMessage(i))
            /\ SubmitIntent(i)
            /\ IntentMessage(i) \in channel'["bob"]
       \/ Waiting("alice") # {} /\ AliceReceives(channel["alice"])
       \/ \E q \in Quotes : rec[QuoteIntent[q]].state = "SUBMITTED" /\ AcceptQuote(q)
       \/ \E i \in Intents : PayCommand(i)
       \/ \E i \in Intents, q \in Quotes, ref \in Refs :
            AcceptReceipt(i, q, ref, Amount[i]) /\ store'.receipts[i] = ref

BobWork ==
    /\ Bob!HandleLine("ok")
    /\ \/ Waiting("bob") # {} /\ BobReceives(channel["bob"])
       \/ \E i \in Intents : AcceptIntent(i)
       \/ \E q \in Quotes :
            QuoteIntent[q] \in Bob!Tracked /\ Missing("alice", QuoteMessage(q)) /\ PublishQuote(q)
       \/ \E i \in Intents, q \in Quotes, ref \in Refs :
            /\ Missing("alice", ReceiptMessage(i, q, ref, Amount[i]))
            /\ VerifyPublishReceipt(i, q, ref)

\* The operators go on with the flow although other commands come in between, and
\* repeat a submit_intent whose send failed until one reaches the relay; a
\* command that runs ends, with its snapshot; a payment that arrived is shown as
\* completed at last.  Each of these steps changes the variable that is its subscript.
PeersFairSpec ==
    /\ PeersSpec
    /\ SF_dirty(AliceWork)
    /\ SF_bDirty(BobWork)
    /\ WF_<<frame, dirty>>(AliceExecutes \/ AliceSnapshot)
    /\ WF_bDirty(BobSnapshot)
    /\ WF_wallet(\E t \in Tokens : PaymentCompletes(t))

-----------------------------------------------------------------------------
(* Properties *)

\* SAFETY.  What the sender's disk shows as settled, the recipient's wallet has
\* received, with that reference and amount, although publish_receipt sends
\* receipts nobody verified and receipts come early, late and again.
BoundIsReceived ==
    \A i \in Intents :
        disk.receipts[i] # None => ReceivedWith(disk.receipts[i], Amount[i]) # {}

\* LIVENESS.  A payment that has reached the recipient, who has the intent in his
\* snapshot, is in the end settled on the sender's disk, although either process
\* is killed at any moment and messages handed over before the kill are lost.
\* The one escape: a later quote has replaced the one that was paid.
PaidIsBound ==
    \A i \in Intents, t \in Tokens :
        /\ t \in received
        /\ QuoteIntent[wallet[t].quote] = i
        /\ wallet[t].amount = Amount[i]
        /\ bSnapshot[i].state # "UNTRACKED"
        ~> disk.receipts[i] # None \/ rec[i].quote # wallet[t].quote

\* LIVENESS, if no process is killed.  An intent that was submitted is handed to the
\* adapter, or the time of the intent or of a quote for it is over: neither peer waits
\* for the other for ever.  The send may have failed after submit() had saved the id:
\* the same command, which submit() then takes for a replay, is the only way to send it.
SubmittedIsDispatched ==
    [](faults = 0) =>
        \A i \in Intents :
            i \in Tracked
              ~> \/ \E n \in DOMAIN calls : calls[n].intent = i
                 \/ Stale(IntentMessage(i))
                 \/ \E q \in Quotes : QuoteIntent[q] = i /\ Stale(QuoteMessage(q))

-----------------------------------------------------------------------------
(* The inductive invariant behind the safety properties *)

\* The rail shows a payment as completed only once the recipient has it.
CompletedIsReceived == \A t \in Tokens : wallet[t].status = "COMPLETE" => t \in received

\* SAFETY.  With messages, kills and unverified receipts of both parties, the sender's
\* records stay in step with its wallet, and its wallet with the recipient's.
PeersIInv == PeersTypeOK /\ SettlementIInv /\ CompletedIsReceived

-----------------------------------------------------------------------------
(* Refinement *)

ToAlice == INSTANCE PeerDelivery
             WITH fresh <- channel["alice"], inbox <- inbox["alice"], saved <- saved["alice"]
ToBob == INSTANCE PeerDelivery
             WITH fresh <- channel["bob"], inbox <- inbox["bob"], saved <- saved["bob"]

\* REFINEMENT.  The messages of both peers move as PeerDelivery, which the transport
\* implements, allows: no command, kill or recovery touches them otherwise.
PeersDeliver == ToAlice!Spec /\ ToBob!Spec

-----------------------------------------------------------------------------
(* A statement of the repository that the code does not meet *)

\* FIELD of PaymentQuote: the quote is void after expires_at.  So nothing is
\* prepared from a quote whose time is over.
NothingPreparedFromVoidQuote ==
    [][ \A i \in Intents :
          rec'[i].prepared \notin {None, rec[i].prepared}
            => now <= QuoteExpires[rec[i].quote] ]_peersVars
==============================================================================
