-------------------------- MODULE HermesPeersProofs --------------------------
(***************************************************************************)
(* Proofs about HermesPeers, for every value of its constants.  Alice's    *)
(* steps are steps of WavelengthSettlement or leave what its invariant is  *)
(* about alone, so that invariant holds in the composition too; what is    *)
(* added says how the rail, the recipient and the messages move.           *)
(***************************************************************************)
EXTENDS HermesPeers, WavelengthSettlementProofs

(***************************************************************************)
(* The messages                                                            *)
(***************************************************************************)

\* A message of the channel is a message.
LEMMA MessageTypes ==
    /\ \A i \in Intents : IntentMessage(i) \in Messages
    /\ \A q \in Quotes : QuoteMessage(q) \in Messages
    /\ \A i \in Intents, q \in Quotes, ref \in Refs, amount \in Amounts :
         ReceiptMessage(i, q, ref, amount) \in Messages
BY DEF Messages

\* How the messages of one peer move: as PeerDelivery says, in terms of this module.
Published(p) ==
    /\ \E m \in Messages : channel'[p] = channel[p] \cup {m}
    /\ inbox'[p] = inbox[p] /\ saved'[p] = saved[p]

Taken(p) ==
    /\ \E batch \in SUBSET channel[p] :
         /\ channel'[p] = channel[p] \ batch
         /\ inbox[p] \subseteq inbox'[p] /\ inbox'[p] \subseteq inbox[p] \cup batch
    /\ saved'[p] = saved[p]

InboxKept(p) == inbox'[p] = saved[p] /\ channel'[p] = channel[p] /\ saved'[p] = saved[p]

SavedNow(p) == saved'[p] = inbox[p] /\ channel'[p] = channel[p] /\ inbox'[p] = inbox[p]

Unmoved(p) == channel'[p] = channel[p] /\ inbox'[p] = inbox[p] /\ saved'[p] = saved[p]

MessagesMove(p) == Published(p) \/ Taken(p) \/ InboxKept(p) \/ SavedNow(p) \/ Unmoved(p)

\* The messages of all peers move so, and each variable stays a function of the peers.
AllMove ==
    /\ \A p \in Peers : MessagesMove(p)
    /\ channel' = [p \in Peers |-> channel'[p]]
    /\ inbox' = [p \in Peers |-> inbox'[p]]
    /\ saved' = [p \in Peers |-> saved'[p]]

\* The messages of both peers are sets of messages.
MessagesOK ==
    /\ channel \in [Peers -> SUBSET Messages]
    /\ inbox \in [Peers -> SUBSET Messages]
    /\ saved \in [Peers -> SUBSET Messages]

\* A step that moves the messages of one peer leaves those of the other alone.
LEMMA OnePeerMoves ==
    ASSUME MessagesOK, NEW p \in Peers,
           \/ /\ \E m \in Messages : Send(p, m)
              /\ UNCHANGED <<inbox, saved>>
           \/ \E batch \in SUBSET channel[p] : Take(p, batch)
           \/ InboxRestored(p) /\ UNCHANGED <<channel, saved>>
           \/ InboxSaved(p) /\ UNCHANGED <<channel, inbox>>
    PROVE  AllMove
<1> USE DEF MessagesOK
<1>1. ASSUME NEW m \in Messages, Send(p, m), UNCHANGED <<inbox, saved>>
      PROVE  Published(p) /\ \A peer \in Peers \ {p} : Unmoved(peer)
  BY <1>1 DEF Send, Published, Unmoved
<1>2. ASSUME NEW batch \in SUBSET channel[p], Take(p, batch)
      PROVE  Taken(p) /\ \A peer \in Peers \ {p} : Unmoved(peer)
  <2>1. /\ channel'[p] = channel[p] \ batch
        /\ inbox'[p] = inbox[p] \cup {m \in batch : ~Stale(m)}
        /\ saved' = saved
        /\ \A peer \in Peers \ {p} : channel'[peer] = channel[peer] /\ inbox'[peer] = inbox[peer]
    BY <1>2 DEF Take
  <2> QED
    BY <2>1 DEF Taken, Unmoved
<1>3. ASSUME InboxRestored(p), UNCHANGED <<channel, saved>>
      PROVE  InboxKept(p) /\ \A peer \in Peers \ {p} : Unmoved(peer)
  BY <1>3 DEF InboxRestored, InboxKept, Unmoved
<1>4. ASSUME InboxSaved(p), UNCHANGED <<channel, inbox>>
      PROVE  SavedNow(p) /\ \A peer \in Peers \ {p} : Unmoved(peer)
  BY <1>4 DEF InboxSaved, SavedNow, Unmoved
<1>5. \A peer \in Peers : MessagesMove(peer)
  BY <1>1, <1>2, <1>3, <1>4 DEF MessagesMove
<1>6. /\ channel' = [peer \in Peers |-> channel'[peer]]
      /\ inbox' = [peer \in Peers |-> inbox'[peer]]
      /\ saved' = [peer \in Peers |-> saved'[peer]]
  BY DEF Send, Take, InboxRestored, InboxSaved
<1> QED
  BY <1>5, <1>6 DEF AllMove

\* Every step moves the messages so.
LEMMA MessagesStep ==
    ASSUME MessagesOK, [PeersNext]_peersVars
    PROVE  AllMove
<1>0. "alice" \in Peers /\ "bob" \in Peers
  BY DEF Peers
<1>1. CASE UNCHANGED messageVars
  BY <1>1 DEF messageVars, MessagesMove, Unmoved, AllMove, MessagesOK
<1>2. ASSUME NEW i \in Intents, SubmitIntent(i) PROVE AllMove
  <2>1. CASE UNCHANGED channel
    BY <1>1, <1>2, <2>1 DEF SubmitIntent, messageVars
  <2>2. CASE Send("bob", IntentMessage(i))
    BY <1>0, <1>2, <2>2, OnePeerMoves, MessageTypes DEF SubmitIntent
  <2> QED
    BY <1>2, <2>1, <2>2 DEF SubmitIntent
<1>3. ASSUME NEW m \in Messages, Publish(m) PROVE AllMove
  BY <1>0, <1>3, OnePeerMoves DEF Publish
<1>4. ASSUME NEW batch, \/ batch \in SUBSET channel["alice"] /\ AliceReceives(batch)
                        \/ batch \in SUBSET channel["bob"] /\ BobReceives(batch)
      PROVE  AllMove
  BY <1>0, <1>4, OnePeerMoves DEF AliceReceives, BobReceives
<1>5. CASE AliceSnapshot \/ BobSnapshot \/ AliceKilled \/ BobKilled
  BY <1>0, <1>5, OnePeerMoves DEF AliceSnapshot, BobSnapshot, AliceKilled, BobKilled
<1>6. ASSUME NEW i \in Intents, NEW q \in Quotes, NEW ref \in Refs, VerifyPublishReceipt(i, q, ref)
      PROVE  AllMove
  BY <1>3, <1>6, MessageTypes, AmountAssumption DEF VerifyPublishReceipt
<1>7. ASSUME NEW i \in Intents, PayCommand(i) \/ AcceptIntent(i) PROVE UNCHANGED messageVars
  BY <1>7 DEF PayCommand, AcceptIntent
<1>8. ASSUME NEW q \in Quotes, AcceptQuote(q) PROVE UNCHANGED messageVars
  BY <1>8 DEF AcceptQuote
<1>9. ASSUME NEW q \in Quotes, PublishQuote(q) PROVE AllMove
  BY <1>3, <1>9, MessageTypes DEF PublishQuote
<1>10. ASSUME NEW i \in Intents, NEW q \in Quotes, NEW ref \in Refs, NEW amount \in Amounts,
              ReceiptStep(i, q, ref, amount)
       PROVE  AllMove
  BY <1>1, <1>3, <1>10, MessageTypes DEF ReceiptStep, AcceptReceipt, PublishReceipt
<1>11. ASSUME \/ AliceExecutes \/ AliceRecovers \/ TimePasses \/ UNCHANGED peersVars
              \/ \E t \in Tokens :
                   \/ PaymentArrives(t) \/ PaymentCompletes(t) \/ PaymentFails(t)
                   \/ SendEnds(t)
       PROVE  UNCHANGED messageVars
  BY <1>11 DEF AliceExecutes, AliceRecovers, TimePasses, peersVars, PaymentArrives,
               PaymentCompletes, PaymentFails, SendEnds, RailOnly
<1> QED
  BY <1>1, <1>2, <1>4, <1>5, <1>6, <1>7, <1>8, <1>9, <1>10, <1>11 DEF PeersNext

\* Such a move keeps the messages sets of messages.
LEMMA MovesType ==
    ASSUME MessagesOK, NEW p \in Peers, MessagesMove(p)
    PROVE  /\ channel'[p] \subseteq Messages
           /\ inbox'[p] \subseteq Messages
           /\ saved'[p] \subseteq Messages
BY DEF MessagesOK, MessagesMove, Published, Taken, InboxKept, SavedNow, Unmoved

\* It is a step of PeerDelivery, or none.
LEMMA MovesDeliver ==
    ASSUME MessagesOK
    PROVE  /\ MessagesMove("alice") => [ToAlice!Next]_(ToAlice!deliveryVars)
           /\ MessagesMove("bob") => [ToBob!Next]_(ToBob!deliveryVars)
<1>1. /\ channel["alice"] \subseteq Messages
      /\ channel["bob"] \subseteq Messages
  BY DEF MessagesOK, Peers
<1>2. MessagesMove("alice") => [ToAlice!Next]_(ToAlice!deliveryVars)
  BY <1>1 DEF MessagesMove, Published, Taken, InboxKept, SavedNow, Unmoved, ToAlice!Next,
              ToAlice!Publish, ToAlice!Take, ToAlice!Save, ToAlice!Restart, ToAlice!deliveryVars
<1>3. MessagesMove("bob") => [ToBob!Next]_(ToBob!deliveryVars)
  BY <1>1 DEF MessagesMove, Published, Taken, InboxKept, SavedNow, Unmoved, ToBob!Next,
              ToBob!Publish, ToBob!Take, ToBob!Save, ToBob!Restart, ToBob!deliveryVars
<1> QED
  BY <1>2, <1>3

\* Every step keeps the messages sets of messages.
LEMMA MessagesType ==
    ASSUME MessagesOK, [PeersNext]_peersVars
    PROVE  MessagesOK'
<1>1. AllMove
  BY MessagesStep
<1>2. \A p \in Peers : /\ channel'[p] \subseteq Messages
                       /\ inbox'[p] \subseteq Messages
                       /\ saved'[p] \subseteq Messages
  BY <1>1, MovesType DEF AllMove
<1>3. channel' \in [Peers -> SUBSET Messages]
  BY <1>1, <1>2 DEF AllMove
<1>4. inbox' \in [Peers -> SUBSET Messages]
  BY <1>1, <1>2 DEF AllMove
<1>5. saved' \in [Peers -> SUBSET Messages]
  BY <1>1, <1>2 DEF AllMove
<1> QED
  BY <1>3, <1>4, <1>5 DEF MessagesOK

\* THEOREM.  In the composition, messages reach either peer as PeerDelivery promises.
THEOREM PeersRefineDelivery == PeersSpec => PeersDeliver
<1>1. PeersInit => MessagesOK /\ ToAlice!Init /\ ToBob!Init
  BY DEF PeersInit, MessagesOK, Peers, ToAlice!Init, ToBob!Init
<1>2. MessagesOK /\ [PeersNext]_peersVars => MessagesOK'
  BY MessagesType
<1>3. MessagesOK /\ [PeersNext]_peersVars
        => /\ [ToAlice!Next]_(ToAlice!deliveryVars)
           /\ [ToBob!Next]_(ToBob!deliveryVars)
  BY MessagesStep, MovesDeliver DEF AllMove, Peers
<1> QED
  BY <1>1, <1>2, <1>3, PTL DEF PeersSpec, PeersDeliver, ToAlice!Spec, ToBob!Spec

-----------------------------------------------------------------------------
(***************************************************************************)
(* The sender                                                              *)
(***************************************************************************)

\* Of the sender, at most a handler has begun; time may pass, and the other process
\* may die.
AliceIdles ==
    /\ UNCHANGED <<policyVars, clock, snapshot, lost, wallet, flight, issued>>
    /\ dirty' \in BOOLEAN /\ (dirty => dirty')
    /\ now' \in 1 .. MaxTime
    /\ faults' \in 0 .. MaxFaults

\* That preserves the invariant of the sender.
LEMMA IdlingKeeps ==
    ASSUME SettlementIInv, AliceIdles
    PROVE  SettlementIInv'
<1>1. SettlementTypeOK /\ ProcessTypeOK /\ TypeOK /\ ProcessIInv
  BY DEF SettlementIInv, SettlementTypeOK, ProcessTypeOK
<1>2. TypeOK'
  BY <1>1 DEF AliceIdles, policyVars, TypeOK
<1>3. ProcessTypeOK'
  BY <1>1, <1>2 DEF AliceIdles, ProcessTypeOK
<1>4. SettlementTypeOK'
  BY <1>1, <1>3 DEF AliceIdles, SettlementTypeOK
<1>5. ProcessIInv'
  BY <1>1, <1>3, SnapshotPreserves DEF AliceIdles, policyVars
<1>6. WalletStep
  BY DEF AliceIdles, WalletStep
<1>7. WalletInv'
  BY <1>6, OtherKeepsWallet DEF AliceIdles, policyVars
<1> QED
  BY <1>4, <1>5, <1>7 DEF SettlementIInv, WalletInv

\* What alice's commands are in WavelengthSettlement.
LEMMA AliceCommands ==
    ASSUME \/ \E i \in Intents :
                \/ SubmitIntent(i) /\ SubmitCommand(i, "ok")
                \/ PayCommand(i)
           \/ \E q \in Quotes : AcceptQuote(q)
           \/ \E i \in Intents, q \in Quotes, ref \in Refs, amount \in Amounts :
                AcceptReceipt(i, q, ref, amount)
           \/ AliceExecutes \/ AliceSnapshot \/ AliceKilled \/ AliceRecovers
    PROVE  SettlementNext
<1>0. "ok" \in Outcomes
  BY DEF Outcomes
<1>1. ASSUME NEW i \in Intents, SubmitIntent(i), SubmitCommand(i, "ok")
      PROVE  CommandWithWallet("ok")
  BY <1>1 DEF SubmitIntent, CommandWithWallet, AliceOnly
<1>2. ASSUME NEW i \in Intents, PayCommand(i) PROVE CommandWithWallet("ok")
  BY <1>2 DEF PayCommand, CommandWithWallet, AliceOnly
<1>3. ASSUME NEW q \in Quotes, AcceptQuote(q) PROVE CommandWithWallet("ok")
  <2>1. QuoteCommand(QuoteIntent[q], "ok") /\ QuoteIntent[q] \in Intents
    BY <1>3, QuoteAssumption DEF AcceptQuote, QuoteCommand
  <2> QED
    BY <1>3, <2>1 DEF AcceptQuote, CommandWithWallet, AliceOnly
<1>4. ASSUME NEW i \in Intents, NEW q \in Quotes, NEW ref \in Refs, NEW amount \in Amounts,
             AcceptReceipt(i, q, ref, amount)
      PROVE  CommandWithWallet("ok")
  BY <1>4 DEF AcceptReceipt, CommandWithWallet, ReceiptWithWallet, AliceOnly
<1>5. CASE AliceExecutes
  BY <1>0, <1>5 DEF AliceExecutes, SettlementNext
<1>6. CASE AliceSnapshot
  BY <1>6 DEF AliceSnapshot, SnapshotOnly, SettlementNext, AliceOnly
<1>7. CASE AliceKilled \/ AliceRecovers
  BY <1>7 DEF AliceKilled, AliceRecovers, SettlementNext
<1> QED
  BY <1>0, <1>1, <1>2, <1>3, <1>4, <1>5, <1>6, <1>7 DEF SettlementNext

\* Whatever bob does, alice idles.
LEMMA BobLeavesAlice ==
    ASSUME SettlementTypeOK,
           \/ \E i \in Intents : AcceptIntent(i)
           \/ \E m : Publish(m)
           \/ \E batch : BobReceives(batch)
           \/ BobSnapshot \/ BobKilled
    PROVE  AliceIdles
<1>1. UNCHANGED <<policyVars, snapshot, dirty, lost, issued, now, wallet, flight, received>>
  BY DEF AcceptIntent, Publish, BobReceives, BobSnapshot, BobKilled, BobOnly, aliceVars, railVars
<1>2. clock' = clock /\ faults' \in 0 .. MaxFaults
  <2>1. faults \in 0 .. MaxFaults /\ clock \in 1 .. MaxTime
    BY DEF SettlementTypeOK, ProcessTypeOK, TypeOK
  <2>2. CASE \E i \in Intents : AcceptIntent(i)
    BY <2>1, <2>2 DEF AcceptIntent, Bob!SubmitCommand, Bob!Submit, Bob!Fault
  <2>3. CASE (\E m : Publish(m)) \/ (\E batch : BobReceives(batch))
    BY <2>1, <2>3 DEF Publish, BobReceives
  <2>4. CASE BobSnapshot
    BY <2>1, <2>4 DEF BobSnapshot, Bob!Snapshot, Bob!vars
  <2>5. CASE BobKilled
    BY <2>1, <2>5, BoundAssumption DEF BobKilled, Bob!Restart, Bob!Fault
  <2> QED
    BY <2>2, <2>3, <2>4, <2>5
<1>3. dirty \in BOOLEAN /\ now \in 1 .. MaxTime
  BY DEF SettlementTypeOK, ProcessTypeOK
<1> QED
  BY <1>1, <1>2, <1>3 DEF AliceIdles

\* Every step is one of WavelengthSettlement, or alice idles.
LEMMA AliceSteps ==
    ASSUME SettlementTypeOK, [PeersNext]_peersVars
    PROVE  [SettlementNext]_settlementVars \/ AliceIdles
<1>0. dirty \in BOOLEAN /\ now \in 1 .. MaxTime /\ clock \in 1 .. MaxTime
      /\ faults \in 0 .. MaxFaults
  BY DEF SettlementTypeOK, ProcessTypeOK, TypeOK
<1>1. ASSUME NEW batch, AliceReceives(batch) PROVE AliceIdles
  <2>1. lost' = lost /\ dirty' = TRUE /\ snapshot' = snapshot
    BY <1>1 DEF AliceReceives, HandleLine, Losing
  <2> QED
    BY <1>0, <1>1, <2>1 DEF AliceReceives, AliceIdles, AliceOnly, vars, policyVars
<1>2. ASSUME NEW i \in Intents, SubmitIntent(i), UNCHANGED vars PROVE AliceIdles
  <2>1. lost' = lost /\ dirty' = TRUE /\ snapshot' = snapshot
    BY <1>2 DEF SubmitIntent, HandleLine, Losing
  <2> QED
    BY <1>0, <1>2, <2>1 DEF SubmitIntent, AliceIdles, AliceOnly, vars, policyVars
<1>3. ASSUME NEW i \in Intents, SubmitIntent(i)
      PROVE  SubmitCommand(i, "ok") \/ UNCHANGED vars
  BY <1>3 DEF SubmitIntent
<1>4. CASE TimePasses
  BY <1>0, <1>4, BoundAssumption
  DEF TimePasses, AliceIdles, processVars, vars, policyVars, railVars
<1>5. ASSUME NEW t \in Tokens,
             PaymentArrives(t) \/ PaymentCompletes(t) \/ PaymentFails(t) \/ SendEnds(t)
      PROVE  [SettlementNext]_settlementVars
  BY <1>5 DEF PaymentArrives, PaymentCompletes, PaymentFails, SendEnds, SettlementNext
<1>6. CASE UNCHANGED peersVars
  BY <1>6 DEF peersVars
<1> QED
  BY <1>1, <1>2, <1>3, <1>4, <1>5, <1>6, AliceCommands, BobLeavesAlice
  DEF PeersNext, ReceiptStep, PublishReceipt, PublishQuote, VerifyPublishReceipt

-----------------------------------------------------------------------------
(***************************************************************************)
(* The rail                                                                *)
(***************************************************************************)

\* Only what bob has received becomes complete, and he keeps what he received.
RailStep ==
    /\ received \subseteq received' /\ received' \subseteq received \cup Tokens
    /\ \A t \in Tokens :
         wallet'[t].status = "COMPLETE" => wallet[t].status = "COMPLETE" \/ t \in received

\* Every step of the two parties, the channel and the rail is of that kind.
LEMMA RailSteps ==
    ASSUME SettlementTypeOK, [PeersNext]_peersVars
    PROVE  RailStep
<1>1. CASE UNCHANGED <<wallet, received>>
  BY <1>1 DEF RailStep
<1>2. ASSUME NEW i \in Intents, PayCommand(i) PROVE RailStep
  <2>1. received' = received
    BY <1>2 DEF PayCommand, AliceOnly
  <2>2. CASE PrepareWithWallet(i, "ok")
    <3>1. PICK token \in Tokens, preview \in Previews :
            wallet' = [wallet EXCEPT ![token] =
                         [status |-> "prepared", quote |-> rec[i].quote,
                          amount |-> preview.amount]]
      BY <2>2 DEF PrepareWithWallet
    <3> QED
      BY <2>1, <3>1 DEF RailStep, SettlementTypeOK
  <2> QED
    BY <1>1, <1>2, <2>1, <2>2 DEF PayCommand
<1>3. ASSUME NEW t \in Tokens, PaymentArrives(t) PROVE RailStep
  BY <1>3 DEF PaymentArrives, settlementVars, RailStep
<1>4. ASSUME NEW t \in Tokens, PaymentCompletes(t) \/ PaymentFails(t) PROVE RailStep
  BY <1>4 DEF PaymentCompletes, PaymentFails, PaymentEnds, RailStep, SettlementTypeOK
<1>5. ASSUME NEW t \in Tokens, SendEnds(t) PROVE RailStep
  BY <1>5 DEF SendEnds, SendRefused, SendArrives, RailStep, SettlementTypeOK
<1>6. ASSUME \/ \E i \in Intents : SubmitIntent(i) \/ AcceptIntent(i)
             \/ \E q \in Quotes : AcceptQuote(q)
             \/ \E i, q, ref, amount : AcceptReceipt(i, q, ref, amount)
             \/ \E m : Publish(m)
             \/ \E batch : AliceReceives(batch) \/ BobReceives(batch)
      PROVE  UNCHANGED <<wallet, received>>
  BY <1>6 DEF SubmitIntent, AcceptIntent, AcceptQuote, AcceptReceipt, HandleReceipt, Publish,
              AliceReceives, BobReceives, AliceOnly, BobOnly, railVars
<1>7. ASSUME \/ AliceExecutes \/ AliceSnapshot \/ BobSnapshot \/ AliceKilled \/ BobKilled
             \/ AliceRecovers \/ TimePasses \/ UNCHANGED peersVars
      PROVE  UNCHANGED <<wallet, received>>
  BY <1>7 DEF AliceExecutes, IssueSend, SendReturns, AliceSnapshot, BobSnapshot, AliceKilled,
              RestartWithWallet, BobKilled, AliceRecovers, RecoverWithWallet, TimePasses,
              AliceOnly, BobOnly, railVars, peersVars, settlementVars
<1> QED
  BY <1>1, <1>2, <1>3, <1>4, <1>5, <1>6, <1>7
  DEF PeersNext, ReceiptStep, PublishReceipt, PublishQuote, VerifyPublishReceipt

-----------------------------------------------------------------------------
(***************************************************************************)
(* The recipient                                                           *)
(***************************************************************************)

\* Bob's record of a new intent, and his empty one.
LEMMA BobRecords ==
    /\ Bob!NoRecord \in Bob!Record
    /\ [Bob!NoRecord EXCEPT !.state = Bob!NewState("DRAFT", "submit")] \in Bob!Record
<1>1. Bob!NewState("DRAFT", "submit") = "SUBMITTED"
  BY DEF Bob!NewState, Bob!TRANSITIONS
<1> QED
  BY <1>1 DEF Bob!NoRecord, Bob!Record, Bob!PaymentState

\* What he restores is a record.
LEMMA BobRestored ==
    ASSUME NEW r \in Bob!Record
    PROVE  Bob!Restored(r, "UNKNOWN") \in Bob!Record
BY DEF Bob!Restored, Bob!RestoredState, Bob!Record, Bob!PaymentState, Bob!Statuses

\* A sorted enumeration of intents, as bob writes it, is a sequence of intents.
LEMMA BobSortedType ==
    ASSUME NEW ids \in SUBSET Intents, NEW o \in Bob!Sorted(ids)
    PROVE  o \in Seq(Intents)
<1>1. Bob!Cardinality(ids) = Cardinality(ids)
  BY DEF Bob!Cardinality, Cardinality
<1>2. Cardinality(ids) \in Nat
  BY FS_Subset, FS_CardinalityType, ProcessAssumption
<1>3. o \in [1 .. Cardinality(ids) -> Intents]
  BY <1>1 DEF Bob!Sorted
<1> QED
  BY <1>2, <1>3

\* Handling a line.
LEMMA BobHandles ==
    ASSUME Bob!ProcessTypeOK, Bob!HandleLine("ok")
    PROVE  bSnapshot' = bSnapshot /\ bDirty' = TRUE /\ bLost' = bLost
BY DEF Bob!HandleLine, Bob!Losing

\* Every step preserves the types of bob's process.
LEMMA BobType ==
    ASSUME Bob!ProcessTypeOK, clock' \in 1 .. MaxTime, faults' \in 0 .. MaxFaults,
           [PeersNext]_peersVars
    PROVE  Bob!ProcessTypeOK'
<1> USE DEF Bob!ProcessTypeOK, Bob!TypeOK
<1>1. CASE UNCHANGED bobVars
  BY <1>1 DEF bobVars, bobPolicyVars
<1>2. ASSUME UNCHANGED bobPolicyVars, Bob!HandleLine("ok") PROVE Bob!ProcessTypeOK'
  BY <1>2, BobHandles DEF bobPolicyVars
<1>3. ASSUME NEW i \in Intents, AcceptIntent(i) PROVE Bob!ProcessTypeOK'
  <2>1. Bob!Submit(i, "ok") /\ bSnapshot' = bSnapshot /\ bDirty' = TRUE /\ bLost' = bLost
    BY <1>3, BobHandles DEF AcceptIntent, Bob!SubmitCommand
  <2>2. bRec' \in [Intents -> Bob!Record]
    BY <2>1, BobRecords DEF Bob!Submit
  <2>3. bOrder' \in Seq(Intents)
    <3>1. Append(bOrder, i) \in Seq(Intents)
      OBVIOUS
    <3> QED
      BY <2>1, <3>1 DEF Bob!Submit
  <2>4. bStore' \in Bob!Store /\ bDisk' \in Bob!Store
    <3>1. [bStore EXCEPT !.intents = @ \cup {i}] \in Bob!Store
      BY DEF Bob!Store
    <3> QED
      BY <2>1, <3>1 DEF Bob!Submit, Bob!Save
  <2>5. bAudit' \in SUBSET (Bob!Events \X Intents)
    BY <2>1 DEF Bob!Submit, Bob!Log, Bob!Events
  <2> QED
    BY <2>1, <2>2, <2>3, <2>4, <2>5 DEF Bob!Submit
<1>4. CASE BobSnapshot
  BY <1>4 DEF BobSnapshot, Bob!Snapshot, Bob!vars
<1>5. CASE BobKilled
  <2>1. Bob!Restart([i \in Intents |-> "UNKNOWN"])
    BY <1>5 DEF BobKilled
  <2>2. bRec' \in [Intents -> Bob!Record]
    <3>1. \A i \in Intents : Bob!Restored(bSnapshot[i], "UNKNOWN") \in Bob!Record
      BY BobRestored
    <3> QED
      BY <2>1, <3>1, BobRecords DEF Bob!Restart
  <2>3. bOrder' \in Seq(Intents)
    BY <2>1, BobSortedType DEF Bob!Restart, Bob!InSnapshot
  <2>4. bAudit' \in SUBSET (Bob!Events \X Intents)
    <3>1. Bob!RecoveryEntries \subseteq Bob!Events \X Intents
      BY DEF Bob!RecoveryEntries, Bob!InSnapshot, Bob!Events
    <3> QED
      BY <2>1, <3>1 DEF Bob!Restart
  <2> QED
    BY <2>1, <2>2, <2>3, <2>4 DEF Bob!Restart, Bob!Loaded
<1>6. ASSUME \/ \E m : Publish(m)
             \/ \E batch : BobReceives(batch)
      PROVE  Bob!ProcessTypeOK'
  BY <1>2, <1>6 DEF Publish, BobReceives
<1>7. ASSUME \/ \E i \in Intents : SubmitIntent(i) \/ PayCommand(i)
             \/ \E q \in Quotes : AcceptQuote(q)
             \/ \E i, q, ref, amount : AcceptReceipt(i, q, ref, amount)
             \/ \E batch : AliceReceives(batch)
             \/ AliceExecutes \/ AliceSnapshot \/ AliceKilled \/ AliceRecovers
      PROVE  UNCHANGED bobVars
  BY <1>7 DEF SubmitIntent, PayCommand, AcceptQuote, AcceptReceipt, AliceReceives, AliceExecutes,
              AliceSnapshot, AliceKilled, AliceRecovers, AliceOnly
<1>8. ASSUME \/ TimePasses
             \/ \E t \in Tokens :
                  PaymentArrives(t) \/ PaymentCompletes(t) \/ PaymentFails(t) \/ SendEnds(t)
             \/ UNCHANGED peersVars
      PROVE  UNCHANGED bobVars
  BY <1>8 DEF TimePasses, PaymentArrives, PaymentCompletes, PaymentFails, SendEnds, RailOnly,
              peersVars
<1> QED
  BY <1>1, <1>3, <1>4, <1>5, <1>6, <1>7, <1>8
  DEF PeersNext, ReceiptStep, PublishReceipt, PublishQuote, VerifyPublishReceipt

\* Bob's initial state is well typed.
LEMMA BobInitType ==
    ASSUME Bob!ProcessInit
    PROVE  Bob!ProcessTypeOK
<1>1. Bob!EmptyStore \in Bob!Store
  BY DEF Bob!EmptyStore, Bob!Store
<1>2. <<>> \in Seq(Intents) /\ <<>> \in Seq(Bob!Call)
  OBVIOUS
<1>3. bRec \in [Intents -> Bob!Record] /\ bSnapshot \in [Intents -> Bob!Record]
  BY BobRecords DEF Bob!ProcessInit, Bob!Init
<1>4. clock \in 1 .. MaxTime /\ faults \in 0 .. MaxFaults
  BY BoundAssumption DEF Bob!ProcessInit, Bob!Init
<1>5. bDirty \in BOOLEAN /\ bLost \subseteq {"save_fails", "snapshot_fails"}
  BY DEF Bob!ProcessInit
<1> QED
  BY <1>1, <1>2, <1>3, <1>4, <1>5 DEF Bob!ProcessInit, Bob!Init, Bob!ProcessTypeOK, Bob!TypeOK

-----------------------------------------------------------------------------
(***************************************************************************)
(* The inductive invariant of the composition                              *)
(***************************************************************************)

\* It holds initially.
LEMMA PeersInitIInv == PeersInit => PeersIInv
<1> SUFFICES ASSUME PeersInit PROVE PeersIInv
  OBVIOUS
<1>1. SettlementIInv /\ SettlementTypeOK
  BY SettlementInitIInv DEF PeersInit, SettlementIInv
<1>2. Bob!ProcessTypeOK
  BY BobInitType DEF PeersInit
<1>3. PeersTypeOK
  BY <1>1, <1>2 DEF PeersInit, PeersTypeOK
<1>4. CompletedIsReceived
  BY DEF PeersInit, SettlementInit, NoToken, CompletedIsReceived
<1> QED
  BY <1>1, <1>3, <1>4 DEF PeersIInv

\* Every step preserves it.
LEMMA PeersStep ==
    ASSUME PeersIInv, [PeersNext]_peersVars
    PROVE  PeersIInv'
<1>1. /\ SettlementIInv /\ SettlementTypeOK /\ Bob!ProcessTypeOK /\ MessagesOK
      /\ received \subseteq Tokens /\ CompletedIsReceived
  BY DEF PeersIInv, PeersTypeOK, MessagesOK
<1>2. SettlementIInv'
  BY <1>1, AliceSteps, SettlementStep, IdlingKeeps
<1>3. SettlementTypeOK' /\ clock' \in 1 .. MaxTime /\ faults' \in 0 .. MaxFaults
  BY <1>2 DEF SettlementIInv, SettlementTypeOK, ProcessTypeOK, TypeOK
<1>4. Bob!ProcessTypeOK'
  BY <1>1, <1>3, BobType
<1>5. MessagesOK'
  BY <1>1, MessagesType
<1>6. RailStep
  BY <1>1, RailSteps
<1>7. received' \subseteq Tokens /\ CompletedIsReceived'
  BY <1>1, <1>6 DEF RailStep, CompletedIsReceived
<1> QED
  BY <1>2, <1>3, <1>4, <1>5, <1>7 DEF PeersIInv, PeersTypeOK, MessagesOK

\* THEOREM.  Composed with a recipient, a channel and a rail, the sender keeps the
\* invariant it has alone, and completed payments are received ones.
THEOREM PeersInvariance == PeersSpec => []PeersIInv
<1>1. PeersIInv /\ [PeersNext]_peersVars => PeersIInv'
  BY PeersStep
<1> QED
  BY <1>1, PeersInitIInv, PTL DEF PeersSpec

\* THEOREM.  Every reachable state of the deployed system is well typed.
THEOREM PeersTypeCorrect == PeersSpec => []PeersTypeOK
<1>1. PeersIInv => PeersTypeOK
  BY DEF PeersIInv
<1> QED
  BY <1>1, PeersInvariance, PTL

\* THEOREM.  What the sender's disk shows as settled, the recipient's wallet has
\* received, with that reference and amount.
THEOREM BoundOnlyWhenReceived == PeersSpec => []BoundIsReceived
<1>1. PeersIInv => BoundIsReceived
  <2> SUFFICES ASSUME PeersIInv, NEW i \in Intents, disk.receipts[i] # None
               PROVE  ReceivedWith(disk.receipts[i], Amount[i]) # {}
    BY DEF BoundIsReceived
  <2>1. Verified(disk.receipts[i], Amount[i])
    BY DEF PeersIInv, SettlementIInv, ReceiptsAreVerified
  <2>2. PICK t \in Tokens : /\ wallet[t].status = "COMPLETE" /\ wallet[t].amount = Amount[i]
                            /\ InvoiceHash[wallet[t].quote] = disk.receipts[i]
    BY <2>1 DEF Verified, EntriesFor, Sent
  <2>3. t \in received
    BY <2>2 DEF PeersIInv, CompletedIsReceived
  <2> QED
    BY <2>2, <2>3 DEF ReceivedWith
<1> QED
  BY <1>1, PeersInvariance, PTL

\* THEOREM.  In the deployed system an intent is paid at most once, only as a human has
\* approved it, and shown as settled only when paid, whatever the recipient sends and
\* whenever either process is killed.
THEOREM PeersPaymentSafety ==
    PeersSpec => [](PaidAtMostOnce /\ PaidAsApproved /\ SettledIsPaid)
<1>1. PeersIInv => PaidAtMostOnce /\ PaidAsApproved /\ SettledIsPaid
  BY PaymentSafety DEF PeersIInv
<1> QED
  BY <1>1, PeersInvariance, PTL

\* What a step of the sender is in HermesProcess, if it is one at all.
LEMMA AliceIsProcess ==
    ASSUME PeersIInv, [PeersNext]_peersVars
    PROVE  [ProcessNext]_processVars \/ UNCHANGED policyVars
<1>1. SettlementTypeOK /\ ProcessIInv
  BY DEF PeersIInv, SettlementIInv
<1> QED
  BY <1>1, AliceSteps, SettlementIsProcess DEF AliceIdles

\* THEOREM.  In the deployed system nothing goes to the sender's adapter without the
\* human's approval on her disk and the entry in her log, and what a restarted process
\* dispatches again has the hash of the first time.
THEOREM PeersDispatchSafety ==
    PeersSpec => [](ApprovedBeforeDispatch /\ AuditedBeforeDispatch /\ RepeatedDispatchSameHash)
<1>1. PeersInit => FrameIsLogged /\ AuditedBeforeDispatch
  BY NoneAssumption
  DEF PeersInit, SettlementInit, ProcessInit, Init, NoFrame, FrameIsLogged, AuditedBeforeDispatch
<1>2. /\ PeersIInv /\ FrameIsLogged /\ AuditedBeforeDispatch /\ [PeersNext]_peersVars
      => FrameIsLogged' /\ AuditedBeforeDispatch'
  <2> SUFFICES ASSUME PeersIInv, FrameIsLogged, AuditedBeforeDispatch, [PeersNext]_peersVars
               PROVE  FrameIsLogged' /\ AuditedBeforeDispatch'
    OBVIOUS
  <2>1. TypeOK
    BY DEF PeersIInv, SettlementIInv, SettlementTypeOK, ProcessTypeOK
  <2>2. CASE [ProcessNext]_processVars
    BY <2>1, <2>2, ProcessLogs, LogStaysAhead
  <2>3. CASE UNCHANGED policyVars
    BY <2>3 DEF policyVars, FrameIsLogged, AuditedBeforeDispatch
  <2> QED
    BY <2>2, <2>3, AliceIsProcess
<1>3. PeersIInv => ApprovedBeforeDispatch /\ RepeatedDispatchSameHash
  BY DEF PeersIInv, SettlementIInv, ProcessIInv, SnapshotsAreComplete, RepeatedDispatchSameHash
<1> QED
  BY <1>1, <1>2, <1>3, PeersInvariance, PTL DEF PeersSpec

\* THEOREM.  Nor does the replay protection on the sender's disk lose anything, whoever
\* is killed.
THEOREM PeersReplayProtectionGrows == PeersSpec => DiskOnlyGrows
<1>1. PeersIInv /\ PeersIInv' /\ [PeersNext]_peersVars => [DiskGrows]_vars
  <2> SUFFICES ASSUME PeersIInv, PeersIInv', [PeersNext]_peersVars PROVE DiskGrows
    OBVIOUS
  <2>1. ProcessIInv /\ ProcessIInv'
    BY DEF PeersIInv, SettlementIInv
  <2>2. CASE UNCHANGED policyVars
    BY <2>2 DEF policyVars, DiskGrows
  <2> QED
    BY <2>1, <2>2, AliceIsProcess, ProcessDiskGrows
<1> QED
  BY <1>1, PeersInvariance, PTL DEF PeersSpec, DiskOnlyGrows, DiskGrows
==============================================================================
