---------------------------- MODULE BuzzTransport ----------------------------
(***************************************************************************)
(* Delivery of peer messages: BuzzTransport of transport.py, with its      *)
(* cursor of seen events, and the inbox that the receive command of        *)
(* examples/two_hermes_regtest/process.py fills from it.                   *)
(*                                                                         *)
(* The relay is outside: it holds the events of the channel and answers a  *)
(* query with any of them, in any order.  A command is one step up to its  *)
(* snapshot, which is another: the cursor is saved by the first one and    *)
(* the inbox by the second, and the process may die in between.            *)
(***************************************************************************)
EXTENDS Naturals, FiniteSets, SequencesExt, Functions

CONSTANTS
    Events,        \* the ids of the events that may be published
    Rank,          \* the order of the ids as strings, which sorts the cursor
    Own,           \* events signed with the local key
    Valid,         \* events with the right kind, channel, schema and author
    Undecodable,   \* events of the channel on which validation raises an error of
                   \* another kind than EnvelopeValidationError
    ExpiresAt,     \* when the message in an event expires; 0 if never
    Limits,        \* values of the limit argument
    CursorCap,     \* how many ids the cursor file keeps (10000)
    FaultKinds,    \* which faults may happen
    MaxTime,       \* bound of the clock
    MaxFaults      \* bound on the number of faults

ASSUME EventAssumption ==
    /\ Own \subseteq Events
    /\ Valid \subseteq Events
    /\ Undecodable \subseteq Events \ Valid
    /\ ExpiresAt \in [Events -> Nat]
    /\ Rank \in [Events -> Nat]
    /\ \A d, e \in Events : Rank[d] = Rank[e] => d = e

ASSUME TransportBoundAssumption ==
    /\ Limits \subseteq Nat
    /\ CursorCap \in Nat
    /\ FaultKinds \subseteq {"cursor_fails", "snapshot_fails", "killed", "corrupted"}
    /\ MaxTime \in Nat \ {0}
    /\ MaxFaults \in Nat

VARIABLES
    relay,     \* the events the relay holds
    seen,      \* _seen_event_ids
    cursor,    \* the ids in the cursor file
    inbox,     \* _inbox; _inbox_ids is always the set of its ids
    saved,     \* the inbox in process_state.json
    dirty,     \* a command has run and its snapshot is still to be taken
    dropped,   \* history: messages found by a poll whose ids are seen, but which
               \* did not get into the inbox or are no longer there
    clock,
    faults

vars == <<relay, seen, cursor, inbox, saved, dirty, dropped, clock, faults>>

TransportTypeOK ==
    /\ relay \subseteq Events /\ IsFiniteSet(relay)
    /\ seen \subseteq Events
    /\ cursor \subseteq Events
    /\ inbox \in Seq(Events)
    /\ saved \in Seq(Events)
    /\ dirty \in BOOLEAN
    /\ dropped \subseteq seen
    /\ clock \in 1 .. MaxTime
    /\ faults \in 0 .. MaxFaults

Init ==
    /\ relay = {}
    /\ seen = {}
    /\ cursor = {}
    /\ inbox = <<>>
    /\ saved = <<>>
    /\ dirty = FALSE
    /\ dropped = {}
    /\ clock = 1
    /\ faults = 0

Fault(kind) ==
    /\ kind \in FaultKinds
    /\ faults < MaxFaults
    /\ faults' = faults + 1

-----------------------------------------------------------------------------
(* Receiving *)

Expired(e) == ExpiresAt[e] # 0 /\ clock > ExpiresAt[e]

\* The event passes the author filter and validate_received_event.
Acceptable(e) == e \notin Own /\ e \in Valid /\ ~Expired(e)

\* The validation ends the loop with an error that nobody catches: decode_content looks
\* the type of the envelope up in a dict, which raises TypeError for a list or an
\* object, and only ValueError becomes the EnvelopeValidationError that is skipped.
Raises(e) == e \notin Own /\ e \in Undecodable

\* One turn of the loop of _receive_peer_messages: an unseen event becomes seen before
\* it is looked at, and an acceptable one is also returned.  With limit messages found,
\* or after an error, the loop has ended.
Look(s, e, limit) ==
    IF s.raised \/ Len(s.found) >= limit \/ e \in s.seen THEN s
    ELSE [seen   |-> s.seen \cup {e},
          found  |-> IF Acceptable(e) THEN Append(s.found, e) ELSE s.found,
          raised |-> Raises(e)]

\* The loop over the events of a query.
ScanAhead(batch, limit) ==
    LET new == SelectSeq(batch, LAMBDA e : e \notin seen /\ Acceptable(e))
    IN  [seen   |-> seen \cup ToSet(batch),
         found  |-> SubSeq(new, 1, IF limit < Len(new) THEN limit ELSE Len(new)),
         raised |-> \E e \in ToSet(batch) \ seen : Raises(e)]
LimitTheQuery(batch, limit) ==
    LET got == SubSeq(batch, 1, IF limit < Len(batch) THEN limit ELSE Len(batch))
    IN  [seen   |-> seen \cup ToSet(got),
         found  |-> SelectSeq(got, LAMBDA e : e \notin seen /\ Acceptable(e)),
         raised |-> \E e \in ToSet(got) \ seen : Raises(e)]
Scan(batch, limit) ==
    LET loop[k \in 0 .. Len(batch)] ==
            IF k = 0 THEN [seen |-> seen, found |-> <<>>, raised |-> FALSE]
            ELSE Look(loop[k - 1], batch[k], limit)
    IN  loop[Len(batch)]

\* _save_cursor keeps the last CursorCap ids in sorted order.
CursorOf(ids) ==
    {e \in ids : Cardinality({d \in ids : Rank[d] > Rank[e]}) < CursorCap}

\* _handle_receive and _maybe_recover go through the messages and add those whose id
\* the inbox lacks.
AppendAll(box, messages) == box \o messages
AddNew(box, e) == IF Contains(box, e) THEN box ELSE Append(box, e)
Merge(box, messages) ==
    LET loop[k \in 0 .. Len(messages)] ==
            IF k = 0 THEN box ELSE AddNew(loop[k - 1], messages[k])
    IN  loop[Len(messages)]

\* Messages are lost while their ids stay seen, until they enter the inbox again or
\* a restart forgets the ids.
Lose(messages) == dropped' = ((dropped \cup messages) \cap seen') \ ToSet(inbox')

\* The receive command, when the query returns batch.  It saves the cursor before
\* it hands over any message.
Receive(batch, limit) ==
    LET scan == Scan(batch, limit)
    IN  /\ ~dirty
        /\ ~scan.raised
        /\ seen' = scan.seen
        /\ cursor' = IF scan.seen = seen THEN cursor ELSE CursorOf(scan.seen)
        /\ inbox' = Merge(inbox, scan.found)
        /\ dirty' = TRUE
        /\ Lose({})
        /\ UNCHANGED <<relay, saved, clock, faults>>

\* What a poll that raises leaves behind: the ids it scanned stay seen, and the messages
\* it found are gone.  The snapshot is taken all the same.
Abandon(scan) ==
    /\ ~dirty
    /\ seen' = scan.seen
    /\ dirty' = TRUE
    /\ UNCHANGED <<relay, cursor, inbox, saved, clock>>
    /\ Lose(ToSet(scan.found))

\* The validation of an event raises: the cursor is not saved.
ReceiveRaises(batch, limit) ==
    LET scan == Scan(batch, limit)
    IN  /\ scan.raised
        /\ Abandon(scan)
        /\ UNCHANGED faults

\* The cursor cannot be saved.
ReceiveFails(batch, limit) ==
    LET scan == Scan(batch, limit)
    IN  /\ ~scan.raised
        /\ scan.seen # seen
        /\ Abandon(scan)
        /\ Fault("cursor_fails")

Snapshot ==
    /\ dirty
    /\ saved' = inbox
    /\ dirty' = FALSE
    /\ UNCHANGED <<relay, seen, cursor, inbox, dropped, clock, faults>>

SnapshotFails ==
    /\ dirty
    /\ dirty' = FALSE
    /\ Fault("snapshot_fails")
    /\ UNCHANGED <<relay, seen, cursor, inbox, saved, dropped, clock>>

\* The inbox of a process that is constructed on the files.
ForgottenInbox == <<>>
RestoredInbox == Merge(<<>>, saved)

\* The process ends and is started again: between two commands as part of normal
\* operation, before the snapshot of a command only if it is killed.
Restart ==
    /\ IF dirty THEN Fault("killed") ELSE UNCHANGED faults
    /\ seen' = cursor
    /\ inbox' = RestoredInbox
    /\ dirty' = FALSE
    /\ Lose(ToSet(inbox))
    /\ UNCHANGED <<relay, cursor, saved, clock>>

\* The recover command merges the saved inbox into the one in memory.
Recover ==
    /\ ~dirty
    /\ inbox' = Merge(inbox, saved)
    /\ dirty' = TRUE
    /\ UNCHANGED <<relay, seen, cursor, saved, dropped, clock, faults>>

-----------------------------------------------------------------------------
(* The environment *)

Publish(e) ==
    /\ e \notin relay
    /\ relay' = relay \cup {e}
    /\ UNCHANGED <<seen, cursor, inbox, saved, dirty, dropped, clock, faults>>

\* The cursor file can no longer be read or is no JSON: _load_cursor takes it for an
\* empty one.  (A file that is not UTF-8, or whose JSON is no object, is another case:
\* the process does not start until it is repaired or removed.)
CorruptCursor ==
    /\ cursor # {}
    /\ cursor' = {}
    /\ Fault("corrupted")
    /\ UNCHANGED <<relay, seen, inbox, saved, dirty, dropped, clock>>

Tick ==
    /\ clock < MaxTime
    /\ clock' = clock + 1
    /\ UNCHANGED <<relay, seen, cursor, inbox, saved, dirty, dropped, faults>>

\* What a query may return: some of the events, in some order.
Views == UNION {SetToSeqs(view) : view \in SUBSET relay}

Next ==
    \/ \E batch \in Views, limit \in Limits :
         \/ Receive(batch, limit)
         \/ ReceiveRaises(batch, limit)
         \/ ReceiveFails(batch, limit)
    \/ Snapshot
    \/ SnapshotFails
    \/ Restart
    \/ Recover
    \/ \E e \in Events : Publish(e)
    \/ CorruptCursor
    \/ Tick

Spec == Init /\ [][Next]_vars

\* A poll that reaches the relay: the relay returns all it has, and the operator
\* asks for at least one message.  It may raise on an event.
Poll ==
    \E batch \in SetToSeqs(relay), limit \in Limits \ {0} :
        Receive(batch, limit) \/ ReceiveRaises(batch, limit)

\* The operator keeps polling, and again and again a poll reaches the relay in
\* full; handle_line always takes the snapshot.
FairSpec == Spec /\ SF_vars(Poll) /\ WF_vars(Snapshot)

-----------------------------------------------------------------------------
(* Properties *)

\* SAFETY.  Whatever happens to the cursor (it is truncated, corrupted, or its
\* save is lost), no message enters the inbox twice: the comment in _load_cursor
\* rests the safety of an empty cursor on this.
InboxHasNoDuplicates == IsInjective(inbox) /\ IsInjective(saved)

\* ACTION.  The durable inbox is never shortened or reordered, by no restart,
\* recovery, late snapshot or failed write.
SavedInboxOnlyGrows == [][IsPrefix(saved, saved')]_vars

\* SAFETY.  Marking an event as seen loses no message on the quiet: whatever the limit,
\* the order of the answers and the cap of the cursor, its message is in the inbox, was
\* not acceptable, is out of time, or was dropped by a poll that raised, by a failed
\* snapshot or by a kill; and one is dropped only after such a fault or where the
\* channel holds an event that makes the validation raise.
SeenIsDelivered ==
    /\ \A e \in seen \cup cursor :
         \/ e \in Own \/ e \notin Valid \/ Expired(e)
         \/ Contains(inbox, e)
         \/ e \in dropped
    /\ dropped # {} =>
         \/ relay \cap (Undecodable \ Own) # {}
         \/ faults > 0 /\ ~ FaultKinds \subseteq {"corrupted"}

\* From some time on the process is not started again.
RestartsEnd == <>[][~Restart]_vars

\* The cursor file has room for all events, and validation raises on none.
CursorHoldsAll ==
    [](Cardinality(relay) <= CursorCap /\ relay \cap (Undecodable \ Own) = {})

\* LIVENESS.  Every message that stays valid ends up in the durable inbox or is dropped
\* for good, however small the limit and whatever the relay lists first: the events a
\* query repeats do not starve the others, nor does an event on which validation raises,
\* for it is seen when the next poll comes.  A process that is restarted before every
\* second poll needs a cursor that holds all and no such event.
DeliveredEventually ==
    RestartsEnd \/ CursorHoldsAll =>
        \A e \in Valid \ Own :
            ExpiresAt[e] = 0 =>
                (e \in relay ~> (Contains(saved, e) \/ [](e \in dropped)))

\* SAFETY, as receive_messages states it: "Invalid events are silently skipped", so
\* without a failed write or a kill an invalid event costs no other message.
InvalidEventsAreSkipped == faults = 0 => dropped = {}

-----------------------------------------------------------------------------
(* The inductive invariant behind the safety properties *)

\* SAFETY.  Over restarts and failed writes the inbox has every message once and in
\* the order of the saved one, and the cursor file names no event that the process
\* has not seen.
TransportIInv ==
    /\ TransportTypeOK
    /\ InboxHasNoDuplicates
    /\ IsPrefix(saved, inbox)
    /\ cursor \subseteq seen

-----------------------------------------------------------------------------
(* Refinement *)

Delivery == INSTANCE PeerDelivery
              WITH Messages <- Events,
                   fresh <- relay \ (seen \cup Own),
                   inbox <- ToSet(inbox),
                   saved <- ToSet(saved)

\* REFINEMENT.  The transport and the inbox deliver as PeerDelivery promises, under
\* every fault: what the composition of the peers builds on.
ImplementsDelivery == Delivery!Spec
==============================================================================
