------------------------- MODULE BuzzTransportProofs -------------------------
(***************************************************************************)
(* Theorems about BuzzTransport: what the loops over the events of a query *)
(* and over the messages for the inbox compute, for every batch; from that *)
(* the inductive invariant, the safety of the inbox and the refinement of  *)
(* PeerDelivery.                                                           *)
(***************************************************************************)
EXTENDS BuzzTransport, FiniteSetTheorems, SequenceTheorems, WellFoundedInduction, TLAPS

-----------------------------------------------------------------------------
(***************************************************************************)
(* Induction, for sets of numbers                                          *)
(***************************************************************************)

\* A set of natural numbers that is not empty has a least element.
LEMMA LeastNumber ==
    ASSUME NEW T, T \subseteq Nat, T # {}
    PROVE  \E m \in T : \A n \in T : m <= n
<1> DEFINE Less == {p \in Nat \X Nat : p[1] < p[2]}
<1>1. IsWellFoundedOn(Less, Nat)
  BY NatLessThanWellFounded DEF OpToRel
<1> HIDE DEF Less
<1>2. PICK m \in T : \A n \in T : ~ (<<n, m>> \in Less)
  BY <1>1, WFMin
<1>3. \A n \in T : ~ (n < m)
  <2> TAKE n \in T
  <2>1. <<n, m>> \in Nat \X Nat /\ <<n, m>>[1] = n /\ <<n, m>>[2] = m
    OBVIOUS
  <2>2. <<n, m>> \notin Less
    BY <1>2
  <2> QED
    BY <2>1, <2>2 DEF Less
<1> QED
  BY <1>3

\* What holds at the start of a loop and after every turn of it holds at its end.
LEMMA LoopInduction ==
    ASSUME NEW n \in Nat, NEW Good, 0 \in Good,
           \A k \in 1 .. n : k - 1 \in Good => k \in Good
    PROVE  \A k \in 0 .. n : k \in Good
<1> DEFINE Bad == {k \in 0 .. n : k \notin Good}
<1>1. SUFFICES ASSUME Bad # {} PROVE FALSE
  OBVIOUS
<1>2. Bad \subseteq Nat
  OBVIOUS
<1>3. PICK m \in Bad : \A k \in Bad : m <= k
  <2> HIDE DEF Bad
  <2> QED
    BY <1>1, <1>2, LeastNumber
<1>4. m \in 1 .. n /\ m - 1 \in 0 .. n /\ m - 1 \notin Bad
  BY <1>3
<1> QED
  BY <1>4

-----------------------------------------------------------------------------
(***************************************************************************)
(* The loops are well defined                                              *)
(***************************************************************************)

\* The turns of the loop in Merge, up to the n-th.
MergeTurns(box, messages, n, f) ==
    f = [k \in 0 .. n |-> IF k = 0 THEN box ELSE AddNew(f[k - 1], messages[k])]

\* The loop over the messages of any sequence has a result.
LEMMA MergeLoop ==
    ASSUME NEW box, NEW messages \in Seq(Events)
    PROVE  \E f : /\ MergeTurns(box, messages, Len(messages), f)
                  /\ Merge(box, messages) = f[Len(messages)]
<1> DEFINE Good == {n \in 0 .. Len(messages) : \E f : MergeTurns(box, messages, n, f)}
<1>1. 0 \in Good
  <2> DEFINE g == [k \in 0 .. 0 |-> box]
  <2>1. MergeTurns(box, messages, 0, g)
    BY DEF MergeTurns
  <2> QED
    BY <2>1
<1>2. ASSUME NEW n \in 1 .. Len(messages), n - 1 \in Good
      PROVE  n \in Good
  <2>1. PICK f : MergeTurns(box, messages, n - 1, f)
    BY <1>2
  <2> DEFINE g == [k \in 0 .. n |-> IF k < n THEN f[k] ELSE AddNew(f[n - 1], messages[n])]
  <2>2. \A k \in 0 .. n : g[k] = IF k = 0 THEN box ELSE AddNew(g[k - 1], messages[k])
    BY <2>1 DEF MergeTurns
  <2>3. MergeTurns(box, messages, n, g)
    BY <2>2 DEF MergeTurns
  <2> QED
    BY <2>3
<1>3. Len(messages) \in Good
  <2>1. Len(messages) \in Nat
    OBVIOUS
  <2>2. \A k \in 1 .. Len(messages) : k - 1 \in Good => k \in Good
    BY <1>2
  <2> HIDE DEF Good
  <2>3. \A k \in 0 .. Len(messages) : k \in Good
    BY <1>1, <2>1, <2>2, LoopInduction
  <2> QED
    BY <2>1, <2>3
<1>4. \E f : MergeTurns(box, messages, Len(messages), f)
  BY <1>3
<1> QED
  BY <1>4 DEF Merge, MergeTurns

\* The turns of the loop in Scan, up to the n-th.
ScanStart == [seen |-> seen, found |-> <<>>, raised |-> FALSE]
ScanTurns(batch, limit, n, f) ==
    f = [k \in 0 .. n |-> IF k = 0 THEN ScanStart ELSE Look(f[k - 1], batch[k], limit)]

\* The loop over the events of any query has a result.
LEMMA ScanLoop ==
    ASSUME NEW batch \in Seq(Events), NEW limit
    PROVE  \E f : /\ ScanTurns(batch, limit, Len(batch), f)
                  /\ Scan(batch, limit) = f[Len(batch)]
<1> DEFINE Good == {n \in 0 .. Len(batch) : \E f : ScanTurns(batch, limit, n, f)}
<1>1. 0 \in Good
  <2> DEFINE g == [k \in 0 .. 0 |-> ScanStart]
  <2>1. ScanTurns(batch, limit, 0, g)
    BY DEF ScanTurns
  <2> QED
    BY <2>1
<1>2. ASSUME NEW n \in 1 .. Len(batch), n - 1 \in Good
      PROVE  n \in Good
  <2>1. PICK f : ScanTurns(batch, limit, n - 1, f)
    BY <1>2
  <2> DEFINE g == [k \in 0 .. n |-> IF k < n THEN f[k] ELSE Look(f[n - 1], batch[n], limit)]
  <2>2. \A k \in 0 .. n : g[k] = IF k = 0 THEN ScanStart ELSE Look(g[k - 1], batch[k], limit)
    BY <2>1 DEF ScanTurns
  <2>3. ScanTurns(batch, limit, n, g)
    BY <2>2 DEF ScanTurns
  <2> QED
    BY <2>3
<1>3. Len(batch) \in Good
  <2>1. Len(batch) \in Nat
    OBVIOUS
  <2>2. \A k \in 1 .. Len(batch) : k - 1 \in Good => k \in Good
    BY <1>2
  <2> HIDE DEF Good
  <2>3. \A k \in 0 .. Len(batch) : k \in Good
    BY <1>1, <2>1, <2>2, LoopInduction
  <2> QED
    BY <2>1, <2>3
<1>4. \E f : ScanTurns(batch, limit, Len(batch), f)
  BY <1>3
<1> QED
  BY <1>4 DEF Scan, ScanTurns, ScanStart

-----------------------------------------------------------------------------
(***************************************************************************)
(* What the loops compute                                                  *)
(***************************************************************************)

\* s goes on where r ends.
Continues(r, s) == Len(r) <= Len(s) /\ \A k \in 1 .. Len(r) : s[k] = r[k]

\* That is what IsPrefix says.
LEMMA ContinuesIsPrefix ==
    ASSUME NEW r \in Seq(Events), NEW s \in Seq(Events)
    PROVE  Continues(r, s) <=> IsPrefix(r, s)
<1>1. SubSeq(r, 1, Len(r)) = r
  BY SubSeqFull
<1>2. ASSUME Len(r) <= Len(s)
      PROVE  /\ SubSeq(s, 1, Len(r)) \in Seq(Events)
             /\ Len(SubSeq(s, 1, Len(r))) = Len(r)
             /\ \A k \in 1 .. Len(r) : SubSeq(s, 1, Len(r))[k] = s[k]
  BY <1>2
<1>3. ASSUME Len(r) <= Len(s)
      PROVE  SubSeq(s, 1, Len(r)) = r <=> \A k \in 1 .. Len(r) : s[k] = r[k]
  <2> DEFINE t == SubSeq(s, 1, Len(r))
  <2>1. /\ t \in Seq(Events)
        /\ Len(t) = Len(r)
        /\ \A k \in 1 .. Len(r) : t[k] = s[k]
    BY <1>2, <1>3
  <2> HIDE DEF t
  <2>2. (\A k \in 1 .. Len(r) : s[k] = r[k]) => t = r
    BY <2>1, SeqEqual
  <2>3. t = r => \A k \in 1 .. Len(r) : s[k] = r[k]
    BY <2>1
  <2> QED
    BY <2>2, <2>3 DEF t
<1> QED
  BY <1>1, <1>3 DEF Continues, IsPrefix

\* And it is transitive.
LEMMA ContinuesFurther ==
    ASSUME NEW r \in Seq(Events), NEW s \in Seq(Events), NEW t \in Seq(Events),
           Continues(r, s), Continues(s, t)
    PROVE  Continues(r, t)
<1>1. Len(r) \in Nat /\ Len(s) \in Nat /\ Len(t) \in Nat
  OBVIOUS
<1>2. Len(r) <= Len(s) /\ Len(s) <= Len(t)
  BY DEF Continues
<1>3. ASSUME NEW k \in 1 .. Len(r) PROVE t[k] = r[k]
  BY <1>1, <1>2 DEF Continues
<1> QED
  BY <1>1, <1>2, <1>3 DEF Continues

\* Adding a message that may be there already.
LEMMA AddNewAdds ==
    ASSUME NEW box \in Seq(Events), NEW e \in Events
    PROVE  /\ AddNew(box, e) \in Seq(Events)
           /\ Continues(box, AddNew(box, e))
           /\ ToSet(AddNew(box, e)) = ToSet(box) \cup {e}
           /\ IsInjective(box) => IsInjective(AddNew(box, e))
<1>1. CASE Contains(box, e)
  BY <1>1 DEF AddNew, Contains, Continues, ToSet
<1>2. CASE ~Contains(box, e)
  <2> DEFINE more == Append(box, e)
  <2>1. /\ more \in Seq(Events)
        /\ Len(more) = Len(box) + 1
        /\ \A k \in 1 .. Len(box) : more[k] = box[k]
        /\ more[Len(box) + 1] = e
    OBVIOUS
  <2>2. AddNew(box, e) = more
    BY <1>2 DEF AddNew
  <2> HIDE DEF more
  <2>3. DOMAIN more = 1 .. Len(box) + 1 /\ DOMAIN box = 1 .. Len(box) /\ Len(box) \in Nat
    BY <2>1
  <2>4. ToSet(more) = ToSet(box) \cup {e}
    <3>1. ToSet(more) \subseteq ToSet(box) \cup {e}
      BY <2>1, <2>3 DEF ToSet
    <3>2. ToSet(box) \cup {e} \subseteq ToSet(more)
      BY <2>1, <2>3 DEF ToSet
    <3> QED
      BY <3>1, <3>2
  <2>5. IsInjective(box) => IsInjective(more)
    <3>1. \A k \in 1 .. Len(box) : box[k] # e
      BY <1>2 DEF Contains
    <3> QED
      BY <2>1, <2>3, <3>1 DEF IsInjective
  <2> QED
    BY <2>1, <2>2, <2>4, <2>5 DEF Continues
<1> QED
  BY <1>1, <1>2

\* Merge keeps the inbox as it is, adds the messages at its end, and none twice.
LEMMA MergeAdds ==
    ASSUME NEW box \in Seq(Events), NEW messages \in Seq(Events)
    PROVE  /\ Merge(box, messages) \in Seq(Events)
           /\ Continues(box, Merge(box, messages))
           /\ ToSet(Merge(box, messages)) = ToSet(box) \cup ToSet(messages)
           /\ IsInjective(box) => IsInjective(Merge(box, messages))
<1> DEFINE n == Len(messages)
           First(k) == {messages[j] : j \in 1 .. k}
<1>1. n \in Nat /\ DOMAIN messages = 1 .. n /\ \A k \in 1 .. n : messages[k] \in Events
  OBVIOUS
<1>2. PICK f : MergeTurns(box, messages, n, f) /\ Merge(box, messages) = f[n]
  BY MergeLoop
<1> HIDE DEF n
<1>3. f[0] = box /\ \A k \in 1 .. n : f[k] = AddNew(f[k - 1], messages[k])
  BY <1>1, <1>2 DEF MergeTurns
<1> DEFINE Good == {k \in 0 .. n : /\ f[k] \in Seq(Events)
                                   /\ Continues(box, f[k])
                                   /\ ToSet(f[k]) = ToSet(box) \cup First(k)
                                   /\ IsInjective(box) => IsInjective(f[k])}
<1>4. 0 \in Good
  BY <1>1, <1>3 DEF Continues
<1>5. ASSUME NEW k \in 1 .. n, k - 1 \in Good
      PROVE  k \in Good
  <2>1. /\ f[k - 1] \in Seq(Events)
        /\ Continues(box, f[k - 1])
        /\ ToSet(f[k - 1]) = ToSet(box) \cup First(k - 1)
        /\ IsInjective(box) => IsInjective(f[k - 1])
    BY <1>5
  <2>2. /\ f[k] \in Seq(Events)
        /\ Continues(f[k - 1], f[k])
        /\ ToSet(f[k]) = ToSet(f[k - 1]) \cup {messages[k]}
        /\ IsInjective(f[k - 1]) => IsInjective(f[k])
    BY <1>1, <1>3, <2>1, AddNewAdds
  <2>3. Continues(box, f[k])
    BY <2>1, <2>2, ContinuesFurther
  <2>4. First(k) = First(k - 1) \cup {messages[k]}
    BY <1>1
  <2>5. ToSet(f[k]) = ToSet(box) \cup First(k)
    BY <2>1, <2>2, <2>4
  <2> QED
    BY <2>1, <2>2, <2>3, <2>5
<1>6. n \in Good
  <2>1. \A k \in 1 .. n : k - 1 \in Good => k \in Good
    BY <1>5
  <2> HIDE DEF Good
  <2>2. \A k \in 0 .. n : k \in Good
    BY <1>1, <1>4, <2>1, LoopInduction
  <2> QED
    BY <1>1, <2>2
<1>7. First(n) = ToSet(messages)
  BY <1>1 DEF ToSet
<1> QED
  BY <1>2, <1>6, <1>7

\* The inbox a process starts with is the saved one, message by message, if that has
\* none twice.
LEMMA MergeIntoNothing ==
    ASSUME NEW messages \in Seq(Events), IsInjective(messages)
    PROVE  Merge(<<>>, messages) = messages
<1> DEFINE n == Len(messages)
<1>1. n \in Nat /\ DOMAIN messages = 1 .. n /\ \A k \in 1 .. n : messages[k] \in Events
  OBVIOUS
<1>2. PICK f : MergeTurns(<<>>, messages, n, f) /\ Merge(<<>>, messages) = f[n]
  BY MergeLoop
<1> HIDE DEF n
<1>3. f[0] = <<>> /\ \A k \in 1 .. n : f[k] = AddNew(f[k - 1], messages[k])
  BY <1>1, <1>2 DEF MergeTurns
<1> DEFINE Good == {k \in 0 .. n : /\ f[k] \in Seq(Events)
                                   /\ Len(f[k]) = k
                                   /\ \A j \in 1 .. k : f[k][j] = messages[j]}
<1>4. 0 \in Good
  <2>1. <<>> \in Seq(Events) /\ Len(<<>>) = 0 /\ 0 \in 0 .. n /\ 1 .. 0 = {}
    BY <1>1
  <2> QED
    BY <1>3, <2>1
<1>5. ASSUME NEW k \in 1 .. n, k - 1 \in Good
      PROVE  k \in Good
  <2>1. /\ f[k - 1] \in Seq(Events)
        /\ Len(f[k - 1]) = k - 1
        /\ \A j \in 1 .. k - 1 : f[k - 1][j] = messages[j]
    BY <1>5
  <2>2. ~Contains(f[k - 1], messages[k])
    BY <1>1, <2>1 DEF Contains, IsInjective
  <2>3. f[k] = Append(f[k - 1], messages[k])
    BY <1>3, <2>2 DEF AddNew
  <2>4. f[k] \in Seq(Events) /\ Len(f[k]) = k
    BY <1>1, <2>1, <2>3
  <2>5. ASSUME NEW j \in 1 .. k PROVE f[k][j] = messages[j]
    <3>1. CASE j = k
      BY <1>1, <2>1, <2>3, <3>1
    <3>2. CASE j # k
      <4>1. j \in 1 .. k - 1
        BY <3>2
      <4> QED
        BY <1>1, <2>1, <2>3, <4>1
    <3> QED
      BY <3>1, <3>2
  <2> QED
    BY <2>4, <2>5
<1>6. n \in Good
  <2>1. \A k \in 1 .. n : k - 1 \in Good => k \in Good
    BY <1>5
  <2> HIDE DEF Good
  <2>2. \A k \in 0 .. n : k \in Good
    BY <1>1, <1>4, <2>1, LoopInduction
  <2> QED
    BY <1>1, <2>2
<1>7. f[n] \in Seq(Events) /\ Len(f[n]) = n /\ \A j \in 1 .. n : f[n][j] = messages[j]
  BY <1>6
<1> QED
  BY <1>2, <1>7, SeqEqual DEF n

\* What a scan has seen and found so far.
Scans == [seen : SUBSET Events, found : Seq(Events), raised : BOOLEAN]

\* It has found the acceptable ones of the events it was the first to see, and has
\* raised only on one of them.
FoundIsNew(s) ==
    /\ seen \subseteq s.seen
    /\ ToSet(s.found) = {e \in s.seen \ seen : Acceptable(e)}
    /\ s.raised => \E e \in s.seen \ seen : Raises(e)

\* One more event.
LEMMA LookLooks ==
    ASSUME NEW s \in Scans, NEW e \in Events, NEW limit, FoundIsNew(s)
    PROVE  /\ Look(s, e, limit) \in Scans
           /\ FoundIsNew(Look(s, e, limit))
           /\ Look(s, e, limit).seen \subseteq s.seen \cup {e}
<1> DEFINE t == Look(s, e, limit)
<1>1. CASE t = s
  BY <1>1
<1>2. CASE t # s
  <2>1. /\ e \notin s.seen
        /\ ~s.raised
        /\ t = [seen   |-> s.seen \cup {e},
                found  |-> IF Acceptable(e) THEN Append(s.found, e) ELSE s.found,
                raised |-> Raises(e)]
    BY <1>2 DEF Look
  <2> HIDE DEF t
  <2>2. s.seen \subseteq Events /\ s.found \in Seq(Events)
    BY DEF Scans
  <2>3. t.seen = s.seen \cup {e} /\ t.raised = Raises(e) /\ Raises(e) \in BOOLEAN
    BY <2>1 DEF Raises
  <2>4. t.raised => \E d \in t.seen \ seen : Raises(d)
    BY <2>1, <2>3 DEF FoundIsNew
  <2>5. CASE Acceptable(e)
    <3>1. t.found = Append(s.found, e)
      BY <2>1, <2>5
    <3>2. ~Contains(s.found, e)
      <4>1. e \notin ToSet(s.found)
        BY <2>1 DEF FoundIsNew
      <4> QED
        BY <2>2, <4>1 DEF ToSet, Contains
    <3>3. t.found \in Seq(Events) /\ ToSet(t.found) = ToSet(s.found) \cup {e}
      BY <2>2, <3>1, <3>2, AddNewAdds DEF AddNew
    <3>4. t \in Scans
      BY <2>1, <2>2, <2>3, <2>5, <3>3 DEF Scans
    <3> QED
      BY <2>1, <2>3, <2>4, <2>5, <3>3, <3>4 DEF FoundIsNew, t
  <2>6. CASE ~Acceptable(e)
    <3>1. t.found = s.found
      BY <2>1, <2>6
    <3>2. t \in Scans
      BY <2>1, <2>2, <2>3, <2>6 DEF Scans
    <3> QED
      BY <2>1, <2>3, <2>4, <2>6, <3>1, <3>2 DEF FoundIsNew, t
  <2> QED
    BY <2>5, <2>6
<1> QED
  BY <1>1, <1>2

\* A scan sees events of the batch only, and finds the acceptable ones among those it
\* sees for the first time: neither the limit nor their order makes it skip one, and
\* neither does the event on which it raises.
LEMMA ScanFinds ==
    ASSUME seen \subseteq Events, NEW batch \in Seq(Events), NEW limit
    PROVE  /\ Scan(batch, limit) \in Scans
           /\ FoundIsNew(Scan(batch, limit))
           /\ Scan(batch, limit).seen \subseteq seen \cup ToSet(batch)
<1> DEFINE n == Len(batch)
           First(k) == {batch[j] : j \in 1 .. k}
<1>1. n \in Nat /\ DOMAIN batch = 1 .. n /\ \A k \in 1 .. n : batch[k] \in Events
  OBVIOUS
<1>2. PICK f : ScanTurns(batch, limit, n, f) /\ Scan(batch, limit) = f[n]
  BY ScanLoop
<1> HIDE DEF n
<1>3. f[0] = ScanStart /\ \A k \in 1 .. n : f[k] = Look(f[k - 1], batch[k], limit)
  BY <1>1, <1>2 DEF ScanTurns
<1> DEFINE Good == {k \in 0 .. n : /\ f[k] \in Scans
                                   /\ FoundIsNew(f[k])
                                   /\ f[k].seen \subseteq seen \cup First(k)}
<1>4. 0 \in Good
  <2>1. ScanStart \in Scans
    BY DEF Scans, ScanStart
  <2>2. ScanStart.seen = seen /\ ScanStart.found = <<>> /\ ~ScanStart.raised
    BY DEF ScanStart
  <2>3. FoundIsNew(ScanStart)
    BY <2>2 DEF FoundIsNew, ToSet
  <2> QED
    BY <1>1, <1>3, <2>1, <2>2, <2>3
<1>5. ASSUME NEW k \in 1 .. n, k - 1 \in Good
      PROVE  k \in Good
  <2>1. f[k - 1] \in Scans /\ FoundIsNew(f[k - 1]) /\ f[k - 1].seen \subseteq seen \cup First(k - 1)
    BY <1>5
  <2>2. /\ f[k] \in Scans
        /\ FoundIsNew(f[k])
        /\ f[k].seen \subseteq f[k - 1].seen \cup {batch[k]}
    BY <1>1, <1>3, <2>1, LookLooks
  <2>3. First(k) = First(k - 1) \cup {batch[k]}
    BY <1>1
  <2> QED
    BY <2>1, <2>2, <2>3
<1>6. n \in Good
  <2>1. \A k \in 1 .. n : k - 1 \in Good => k \in Good
    BY <1>5
  <2> HIDE DEF Good
  <2>2. \A k \in 0 .. n : k \in Good
    BY <1>1, <1>4, <2>1, LoopInduction
  <2> QED
    BY <1>1, <2>2
<1>7. First(n) = ToSet(batch)
  BY <1>1 DEF ToSet
<1> QED
  BY <1>2, <1>6, <1>7

\* What a query returns are events of the relay.
LEMMA ViewsAreBatches ==
    ASSUME TransportTypeOK, NEW batch \in Views
    PROVE  batch \in Seq(Events) /\ ToSet(batch) \subseteq relay
<1>1. PICK view \in SUBSET relay : batch \in [1 .. Cardinality(view) -> view]
  BY DEF Views, SetToSeqs
<1>2. Cardinality(view) \in Nat
  BY <1>1, FS_Subset, FS_CardinalityType DEF TransportTypeOK
<1>3. batch \in Seq(relay)
  BY <1>1, <1>2
<1> QED
  BY <1>3 DEF ToSet, TransportTypeOK

-----------------------------------------------------------------------------
(***************************************************************************)
(* The inductive invariant                                                 *)
(***************************************************************************)

\* The process starts with nothing seen and nothing received.
LEMMA InitIInv == Init => TransportIInv
<1> SUFFICES ASSUME Init PROVE TransportIInv
  OBVIOUS
<1>1. TransportTypeOK
  <2>1. IsFiniteSet(relay)
    BY FS_EmptySet DEF Init
  <2>2. 1 \in 1 .. MaxTime /\ 0 \in 0 .. MaxFaults
    BY TransportBoundAssumption
  <2>3. <<>> \in Seq(Events)
    OBVIOUS
  <2> QED
    BY <2>1, <2>2, <2>3 DEF Init, TransportTypeOK
<1>2. IsInjective(<<>>)
  BY DEF IsInjective
<1>3. Continues(<<>>, <<>>)
  BY DEF Continues
<1>4. IsPrefix(<<>>, <<>>)
  <2>1. <<>> \in Seq(Events)
    OBVIOUS
  <2> QED
    BY <1>3, <2>1, ContinuesIsPrefix
<1> QED
  BY <1>1, <1>2, <1>4 DEF Init, TransportIInv, InboxHasNoDuplicates

\* A sequence continues itself.
LEMMA PrefixOfItself ==
    ASSUME NEW s \in Seq(Events)
    PROVE  IsPrefix(s, s)
<1>1. Continues(s, s)
  BY DEF Continues
<1> QED
  BY <1>1, ContinuesIsPrefix

\* What a merge does to an inbox that continues the saved one.
LEMMA MergeKeepsInbox ==
    ASSUME TransportIInv, NEW messages \in Seq(Events)
    PROVE  /\ Merge(inbox, messages) \in Seq(Events)
           /\ IsInjective(Merge(inbox, messages))
           /\ IsPrefix(saved, Merge(inbox, messages))
           /\ ToSet(Merge(inbox, messages)) = ToSet(inbox) \cup ToSet(messages)
<1>1. inbox \in Seq(Events) /\ saved \in Seq(Events)
  BY DEF TransportIInv, TransportTypeOK
<1>2. /\ Merge(inbox, messages) \in Seq(Events)
      /\ Continues(inbox, Merge(inbox, messages))
      /\ ToSet(Merge(inbox, messages)) = ToSet(inbox) \cup ToSet(messages)
      /\ IsInjective(Merge(inbox, messages))
  BY <1>1, MergeAdds DEF TransportIInv, InboxHasNoDuplicates
<1>3. Continues(saved, inbox)
  BY <1>1, ContinuesIsPrefix DEF TransportIInv
<1>4. Continues(saved, Merge(inbox, messages))
  BY <1>1, <1>2, <1>3, ContinuesFurther
<1> QED
  BY <1>1, <1>2, <1>4, ContinuesIsPrefix

\* What a receive command computes from what the query returns.
LEMMA ReceiveComputes ==
    ASSUME TransportIInv, NEW batch \in Views, NEW limit
    PROVE  /\ Scan(batch, limit).seen \subseteq Events
           /\ Scan(batch, limit).found \in Seq(Events)
           /\ seen \subseteq Scan(batch, limit).seen
           /\ Scan(batch, limit).seen \subseteq seen \cup relay
           /\ ToSet(Scan(batch, limit).found)
                = {e \in Scan(batch, limit).seen \ seen : Acceptable(e)}
           /\ CursorOf(Scan(batch, limit).seen) \subseteq Scan(batch, limit).seen
           /\ Scan(batch, limit).raised => relay \cap (Undecodable \ Own) # {}
<1>1. TransportTypeOK /\ seen \subseteq Events
  BY DEF TransportIInv, TransportTypeOK
<1>2. batch \in Seq(Events) /\ ToSet(batch) \subseteq relay
  BY <1>1, ViewsAreBatches
<1>3. /\ Scan(batch, limit) \in Scans
      /\ FoundIsNew(Scan(batch, limit))
      /\ Scan(batch, limit).seen \subseteq seen \cup ToSet(batch)
  BY <1>1, <1>2, ScanFinds
<1>4. CursorOf(Scan(batch, limit).seen) \subseteq Scan(batch, limit).seen
  BY DEF CursorOf
<1>5. ASSUME Scan(batch, limit).raised
      PROVE  relay \cap (Undecodable \ Own) # {}
  <2>1. PICK e \in Scan(batch, limit).seen \ seen : Raises(e)
    BY <1>3, <1>5 DEF FoundIsNew
  <2>2. e \in relay /\ e \in Undecodable /\ e \notin Own
    BY <1>2, <1>3, <2>1 DEF Raises
  <2> QED
    BY <2>2
<1> QED
  BY <1>2, <1>3, <1>4, <1>5 DEF Scans, FoundIsNew

\* Every step keeps the invariant.
LEMMA NextIInv ==
    ASSUME TransportIInv, [Next]_vars
    PROVE  TransportIInv'
<1> USE DEF TransportIInv, TransportTypeOK, InboxHasNoDuplicates
<1>1. ASSUME NEW batch \in Views, NEW limit \in Limits, Receive(batch, limit)
      PROVE  TransportIInv'
  <2> DEFINE scan == Scan(batch, limit)
  <2>1. /\ scan.seen \subseteq Events /\ scan.found \in Seq(Events) /\ seen \subseteq scan.seen
        /\ CursorOf(scan.seen) \subseteq scan.seen
    BY ReceiveComputes
  <2>2. /\ Merge(inbox, scan.found) \in Seq(Events)
        /\ IsInjective(Merge(inbox, scan.found))
        /\ IsPrefix(saved, Merge(inbox, scan.found))
    BY <2>1, MergeKeepsInbox
  <2> HIDE DEF scan
  <2>3. /\ seen' = scan.seen
        /\ cursor' = IF scan.seen = seen THEN cursor ELSE CursorOf(scan.seen)
        /\ inbox' = Merge(inbox, scan.found)
        /\ dirty' = TRUE /\ dropped' \subseteq seen'
        /\ UNCHANGED <<relay, saved, clock, faults>>
    BY <1>1 DEF Receive, Lose, scan
  <2> QED
    BY <2>1, <2>2, <2>3
<1>2. ASSUME NEW batch \in Views, NEW limit \in Limits,
             ReceiveRaises(batch, limit) \/ ReceiveFails(batch, limit)
      PROVE  TransportIInv'
  <2> DEFINE scan == Scan(batch, limit)
  <2>1. scan.seen \subseteq Events /\ seen \subseteq scan.seen
    BY ReceiveComputes
  <2> HIDE DEF scan
  <2>2. Abandon(scan)
    BY <1>2 DEF ReceiveRaises, ReceiveFails, scan
  <2>3. /\ seen' = scan.seen /\ dirty' = TRUE /\ dropped' \subseteq seen'
        /\ UNCHANGED <<relay, cursor, inbox, saved, clock>>
    BY <2>2 DEF Abandon, Lose
  <2>4. faults' \in 0 .. MaxFaults
    BY <1>2, TransportBoundAssumption DEF ReceiveRaises, ReceiveFails, Fault
  <2> QED
    BY <2>1, <2>3, <2>4
<1>3. CASE Snapshot
  BY <1>3, PrefixOfItself DEF Snapshot
<1>4. CASE SnapshotFails
  <2>1. faults' \in 0 .. MaxFaults
    BY <1>4, TransportBoundAssumption DEF SnapshotFails, Fault
  <2>2. dirty' \in BOOLEAN /\ UNCHANGED <<relay, seen, cursor, inbox, saved, dropped, clock>>
    BY <1>4 DEF SnapshotFails
  <2> QED
    BY <2>1, <2>2
<1>5. CASE Restart
  <2>1. RestoredInbox = saved
    BY MergeIntoNothing DEF RestoredInbox
  <2>2. faults' \in 0 .. MaxFaults
    BY <1>5, TransportBoundAssumption DEF Restart, Fault
  <2> QED
    BY <1>5, <2>1, <2>2, PrefixOfItself DEF Restart, Lose
<1>6. CASE Recover
  <2>1. /\ Merge(inbox, saved) \in Seq(Events)
        /\ IsInjective(Merge(inbox, saved))
        /\ IsPrefix(saved, Merge(inbox, saved))
    BY MergeKeepsInbox
  <2> QED
    BY <1>6, <2>1 DEF Recover
<1>7. ASSUME NEW e \in Events, Publish(e)
      PROVE  TransportIInv'
  <2>1. IsFiniteSet(relay \cup {e})
    BY FS_AddElement
  <2> QED
    BY <1>7, <2>1 DEF Publish
<1>8. CASE CorruptCursor
  BY <1>8, TransportBoundAssumption DEF CorruptCursor, Fault
<1>9. CASE Tick
  BY <1>9, TransportBoundAssumption DEF Tick
<1>10. CASE UNCHANGED vars
  BY <1>10 DEF vars
<1> QED
  BY <1>1, <1>2, <1>3, <1>4, <1>5, <1>6, <1>7, <1>8, <1>9, <1>10 DEF Next

\* Under every fault the inbox continues the saved one, neither has a message twice,
\* and the cursor file names only events that were seen.
THEOREM TransportInvariance == Spec => []TransportIInv
<1>1. Init => TransportIInv
  BY InitIInv
<1>2. TransportIInv /\ [Next]_vars => TransportIInv'
  BY NextIInv
<1> QED
  BY <1>1, <1>2, PTL DEF Spec

\* No message enters the inbox twice, whatever happens to the cursor file: the claim
\* of the comment in _load_cursor, for every relay, limit and schedule of faults.
THEOREM NoDuplicates == Spec => []InboxHasNoDuplicates
<1>1. TransportIInv => InboxHasNoDuplicates
  BY DEF TransportIInv
<1> QED
  BY <1>1, TransportInvariance, PTL

\* No step shortens or reorders the durable inbox.
THEOREM SavedInboxGrows == Spec => SavedInboxOnlyGrows
<1>1. ASSUME TransportIInv, [Next]_vars
      PROVE  IsPrefix(saved, saved')
  <2>1. saved \in Seq(Events) /\ IsPrefix(saved, inbox)
    BY <1>1 DEF TransportIInv, TransportTypeOK
  <2>2. saved' = saved \/ saved' = inbox
    BY <1>1 DEF Next, vars, Receive, ReceiveRaises, ReceiveFails, Abandon, Snapshot, SnapshotFails, Restart, Recover,
                Publish, CorruptCursor, Tick
  <2> QED
    BY <2>1, <2>2, PrefixOfItself
<1>2. TransportIInv /\ [Next]_vars => [IsPrefix(saved, saved')]_vars
  BY <1>1
<1> QED
  BY <1>2, TransportInvariance, PTL DEF Spec, SavedInboxOnlyGrows

-----------------------------------------------------------------------------
(***************************************************************************)
(* Refinement: the transport delivers as PeerDelivery promises             *)
(***************************************************************************)

\* The events that are new to the peer.
Fresh == relay \ (seen \cup Own)

\* A poll takes the new events it has seen, whether or not their cursor is saved.
LEMMA PollTakes ==
    ASSUME TransportIInv, NEW batch \in Views, NEW limit,
           seen' = Scan(batch, limit).seen, UNCHANGED <<relay, saved>>,
           inbox' = inbox \/ inbox' = Merge(inbox, Scan(batch, limit).found)
    PROVE  Delivery!Take
<1> DEFINE scan == Scan(batch, limit)
           taken == Fresh \cap scan.seen
<1>1. /\ scan.found \in Seq(Events)
      /\ seen \subseteq scan.seen
      /\ scan.seen \subseteq seen \cup relay
      /\ ToSet(scan.found) = {e \in scan.seen \ seen : Acceptable(e)}
  BY ReceiveComputes
<1>2. ToSet(Merge(inbox, scan.found)) = ToSet(inbox) \cup ToSet(scan.found)
  BY <1>1, MergeKeepsInbox
<1>3. ToSet(scan.found) \subseteq taken
  BY <1>1 DEF Acceptable, Fresh
<1>4. Fresh' = Fresh \ taken
  BY <1>1 DEF Fresh
<1>5. ToSet(inbox) \subseteq ToSet(inbox') /\ ToSet(inbox') \subseteq ToSet(inbox) \cup taken
  BY <1>2, <1>3
<1>6. taken \in SUBSET Fresh
  OBVIOUS
<1> HIDE DEF taken
<1>7. UNCHANGED ToSet(saved)
  OBVIOUS
<1> QED
  BY <1>4, <1>5, <1>6, <1>7 DEF Delivery!Take, Fresh

\* Every step of the transport is a step of the promise or changes nothing in it.
LEMMA DeliverySteps ==
    ASSUME TransportIInv, [Next]_vars
    PROVE  [Delivery!Next]_(Delivery!deliveryVars)
<1> USE DEF Delivery!Next, Delivery!deliveryVars
<1>1. ASSUME NEW batch \in Views, NEW limit \in Limits, Receive(batch, limit)
      PROVE  Delivery!Take
  BY <1>1, PollTakes DEF Receive
<1>2. ASSUME NEW batch \in Views, NEW limit \in Limits,
             ReceiveRaises(batch, limit) \/ ReceiveFails(batch, limit)
      PROVE  Delivery!Take
  BY <1>2, PollTakes DEF ReceiveRaises, ReceiveFails, Abandon
<1>3. CASE Snapshot
  BY <1>3 DEF Snapshot, Delivery!Save
<1>4. CASE Restart
  <2>1. RestoredInbox = saved
    BY MergeIntoNothing DEF RestoredInbox, TransportIInv, TransportTypeOK, InboxHasNoDuplicates
  <2>2. inbox' = saved /\ seen' = cursor /\ relay' = relay /\ saved' = saved
    BY <1>4, <2>1 DEF Restart
  <2>3. cursor \subseteq seen /\ relay \subseteq Events
    BY DEF TransportIInv, TransportTypeOK
  <2> QED
    BY <2>2, <2>3 DEF Delivery!Restart
<1>5. CASE Recover
  <2>1. saved \in Seq(Events) /\ inbox \in Seq(Events) /\ Continues(saved, inbox)
    BY ContinuesIsPrefix DEF TransportIInv, TransportTypeOK
  <2>2. ToSet(saved) \subseteq ToSet(inbox)
    BY <2>1 DEF Continues, ToSet
  <2>3. ToSet(Merge(inbox, saved)) = ToSet(inbox) \cup ToSet(saved)
    BY <2>1, MergeKeepsInbox
  <2> QED
    BY <1>5, <2>2, <2>3 DEF Recover
<1>6. ASSUME NEW e \in Events, Publish(e)
      PROVE  Delivery!Publish \/ UNCHANGED Delivery!deliveryVars
  <2>1. UNCHANGED <<seen, inbox, saved>> /\ relay' = relay \cup {e}
    BY <1>6 DEF Publish
  <2>2. CASE e \in seen \cup Own
    BY <2>1, <2>2
  <2>3. CASE e \notin seen \cup Own
    BY <2>1, <2>3 DEF Delivery!Publish
  <2> QED
    BY <2>2, <2>3
<1>7. CASE SnapshotFails \/ CorruptCursor \/ Tick
  BY <1>7 DEF SnapshotFails, CorruptCursor, Tick
<1>8. CASE UNCHANGED vars
  BY <1>8 DEF vars
<1> QED
  BY <1>1, <1>2, <1>3, <1>4, <1>5, <1>6, <1>7, <1>8 DEF Next

\* The transport and the inbox implement the promise PeerDelivery that HermesPeers is
\* built on, for every set of events and under every fault.
THEOREM DeliveryRefinement == Spec => ImplementsDelivery
<1>1. Init => Delivery!Init
  BY DEF Init, Delivery!Init, ToSet
<1>2. TransportIInv /\ [Next]_vars => [Delivery!Next]_(Delivery!deliveryVars)
  BY DeliverySteps
<1> QED
  BY <1>1, <1>2, TransportInvariance, PTL DEF Spec, ImplementsDelivery, Delivery!Spec

-----------------------------------------------------------------------------
(***************************************************************************)
(* No message is lost on the quiet                                         *)
(***************************************************************************)

\* Nothing needs to be delivered for the event, or its message is accounted for.
Settled(e) ==
    \/ e \in Own \/ e \notin Valid \/ Expired(e)
    \/ Contains(inbox, e)
    \/ e \in dropped

\* Something has happened that may have cost a message.
Blamed ==
    \/ relay \cap (Undecodable \ Own) # {}
    \/ faults > 0 /\ ~ FaultKinds \subseteq {"corrupted"}

\* As long as nothing has, the saved inbox is between two commands the one in memory.
DeliveryIInv ==
    /\ TransportIInv
    /\ SeenIsDelivered
    /\ ~Blamed /\ ~dirty => saved = inbox

\* Contains and ToSet speak of the same elements.
LEMMA ContainsIsMember ==
    ASSUME NEW s \in Seq(Events), NEW e
    PROVE  Contains(s, e) <=> e \in ToSet(s)
<1>1. DOMAIN s = 1 .. Len(s)
  OBVIOUS
<1> QED
  BY <1>1 DEF Contains, ToSet

\* An event that is settled stays so if its message stays accounted for: a message that
\* has expired does not become valid again.
LEMMA SettledStays ==
    ASSUME TransportIInv, TransportIInv', NEW e \in Events, Settled(e), clock <= clock',
           e \in ToSet(inbox) \cup dropped => e \in ToSet(inbox') \cup dropped'
    PROVE  Settled(e)'
<1>1. inbox \in Seq(Events) /\ inbox' \in Seq(Events) /\ clock \in Nat /\ clock' \in Nat
  BY DEF TransportIInv, TransportTypeOK
<1>2. Contains(inbox, e) \/ e \in dropped => Contains(inbox', e) \/ e \in dropped'
  BY <1>1, ContainsIsMember
<1>3. Expired(e) => Expired(e)'
  BY <1>1, EventAssumption DEF Expired
<1> QED
  BY <1>2, <1>3 DEF Settled

\* What has happened stays so, and a fault is one more.
LEMMA BlameStays ==
    ASSUME TransportIInv, relay \subseteq relay', faults' = faults \/ \E kind : Fault(kind)
    PROVE  /\ Blamed => Blamed'
           /\ \A kind : Fault(kind) /\ kind # "corrupted" => Blamed'
<1>1. faults \in Nat
  BY DEF TransportIInv, TransportTypeOK
<1>2. faults > 0 => faults' > 0
  BY <1>1 DEF Fault
<1>3. ASSUME NEW kind, Fault(kind), kind # "corrupted"
      PROVE  Blamed'
  <2>1. faults' > 0 /\ ~ FaultKinds \subseteq {"corrupted"}
    BY <1>1, <1>3 DEF Fault
  <2> QED
    BY <2>1 DEF Blamed
<1>4. Blamed => Blamed'
  BY <1>2 DEF Blamed
<1> QED
  BY <1>3, <1>4

\* A poll settles every event it has seen: it hands over what it found, or drops it.
LEMMA PollsSettle ==
    ASSUME TransportIInv, TransportIInv', NEW batch \in Views, NEW limit,
           \A e \in seen : Settled(e),
           seen' = Scan(batch, limit).seen, clock' = clock,
           \/ inbox' = Merge(inbox, Scan(batch, limit).found) /\ Lose({})
           \/ inbox' = inbox /\ Lose(ToSet(Scan(batch, limit).found))
    PROVE  \A e \in seen' : Settled(e)'
<1> DEFINE scan == Scan(batch, limit)
<1>1. /\ scan.found \in Seq(Events) /\ seen \subseteq scan.seen
      /\ ToSet(scan.found) = {e \in scan.seen \ seen : Acceptable(e)}
  BY ReceiveComputes
<1>2. ToSet(Merge(inbox, scan.found)) = ToSet(inbox) \cup ToSet(scan.found)
  BY <1>1, MergeKeepsInbox
<1>3. seen \subseteq Events /\ seen' \subseteq Events /\ inbox' \in Seq(Events) /\ clock \in Nat
      /\ dropped \subseteq seen
  BY DEF TransportIInv, TransportTypeOK
<1>4. ToSet(inbox) \cup (dropped \cap seen') \cup ToSet(scan.found)
        \subseteq ToSet(inbox') \cup dropped'
  <2>1. ToSet(scan.found) \subseteq seen'
    BY <1>1
  <2> QED
    BY <1>2, <2>1 DEF Lose
<1> HIDE DEF scan
<1>5. TAKE e \in seen'
<1>6. CASE e \in seen
  BY <1>3, <1>4, <1>6, SettledStays
<1>7. CASE e \notin seen /\ Acceptable(e)
  <2>1. e \in ToSet(inbox') \cup dropped'
    BY <1>1, <1>4, <1>7 DEF scan
  <2> QED
    BY <1>3, <2>1, ContainsIsMember DEF Settled
<1>8. CASE ~Acceptable(e)
  BY <1>8 DEF Settled, Acceptable, Expired
<1> QED
  BY <1>6, <1>7, <1>8

\* Every step keeps it.
LEMMA NextDelivers ==
    ASSUME DeliveryIInv, [Next]_vars
    PROVE  DeliveryIInv'
<1>1. TransportIInv /\ TransportIInv'
  BY NextIInv DEF DeliveryIInv
<1>2. /\ inbox \in Seq(Events) /\ inbox' \in Seq(Events) /\ saved \in Seq(Events)
      /\ seen \cup cursor \subseteq seen /\ seen \subseteq Events
      /\ seen' \cup cursor' \subseteq seen' /\ seen' \subseteq Events
      /\ clock \in Nat
  BY <1>1 DEF TransportIInv, TransportTypeOK
<1>3. \A e \in seen : Settled(e)
  BY DEF DeliveryIInv, SeenIsDelivered, Settled
<1>4. dropped # {} => Blamed
  BY DEF DeliveryIInv, SeenIsDelivered, Blamed
<1> DEFINE Delivers ==
             /\ \A e \in seen' : Settled(e)'
             /\ dropped' # {} => Blamed'
             /\ ~Blamed' /\ ~dirty' => saved' = inbox'
<1> SUFFICES Delivers
  BY <1>1, <1>2 DEF DeliveryIInv, SeenIsDelivered, Settled, Blamed
<1>5. ASSUME NEW batch \in Views, NEW limit \in Limits, Receive(batch, limit)
      PROVE  Delivers
  <2>1. \A e \in seen' : Settled(e)'
    BY <1>1, <1>3, <1>5, PollsSettle DEF Receive
  <2>2. Blamed => Blamed'
    BY <1>1, <1>5, BlameStays DEF Receive
  <2>3. dropped' \subseteq dropped /\ dirty' = TRUE
    BY <1>5 DEF Receive, Lose
  <2> QED
    BY <1>4, <2>1, <2>2, <2>3
<1>6. ASSUME NEW batch \in Views, NEW limit \in Limits,
             ReceiveRaises(batch, limit) \/ ReceiveFails(batch, limit)
      PROVE  Delivers
  <2>1. Abandon(Scan(batch, limit))
    BY <1>6 DEF ReceiveRaises, ReceiveFails
  <2>2. \A e \in seen' : Settled(e)'
    BY <1>1, <1>3, <2>1, PollsSettle DEF Abandon
  <2>3. relay' = relay /\ dirty' = TRUE
    BY <2>1 DEF Abandon
  <2>4. CASE ReceiveRaises(batch, limit)
    <3>1. relay \cap (Undecodable \ Own) # {}
      BY <1>1, <2>4, ReceiveComputes DEF ReceiveRaises
    <3> QED
      BY <2>2, <2>3, <3>1 DEF Blamed
  <2>5. CASE ReceiveFails(batch, limit)
    <3>1. Blamed'
      BY <1>1, <2>3, <2>5, BlameStays DEF ReceiveFails
    <3> QED
      BY <2>2, <2>3, <3>1
  <2> QED
    BY <1>6, <2>4, <2>5
<1>7. CASE Snapshot
  <2>1. UNCHANGED <<relay, seen, inbox, dropped, clock, faults>> /\ saved' = inbox
    BY <1>7 DEF Snapshot
  <2> QED
    BY <1>3, <1>4, <2>1 DEF Settled, Expired, Blamed
<1>8. CASE SnapshotFails
  <2>1. UNCHANGED <<relay, seen, inbox, dropped, clock>> /\ Fault("snapshot_fails")
    BY <1>8 DEF SnapshotFails
  <2>2. Blamed'
    BY <1>1, <2>1, BlameStays
  <2> QED
    BY <1>3, <2>1, <2>2 DEF Settled, Expired
<1>9. CASE Restart
  <2>1. RestoredInbox = saved
    BY <1>1, MergeIntoNothing DEF RestoredInbox, TransportIInv, TransportTypeOK, InboxHasNoDuplicates
  <2>2. /\ inbox' = saved /\ saved' = saved /\ clock' = clock /\ seen' = cursor /\ relay' = relay
        /\ Lose(ToSet(inbox))
    BY <1>9, <2>1 DEF Restart
  <2>3. (ToSet(inbox) \cup dropped) \cap seen' \subseteq ToSet(inbox') \cup dropped'
    BY <2>2 DEF Lose
  <2>4. \A e \in seen' : Settled(e)'
    BY <1>1, <1>2, <1>3, <2>2, <2>3, SettledStays
  <2>5. CASE dirty
    <3>1. Blamed'
      BY <1>1, <1>9, <2>2, <2>5, BlameStays DEF Restart
    <3> QED
      BY <2>4, <3>1
  <2>6. CASE ~dirty
    <3>1. Blamed <=> Blamed'
      BY <1>9, <2>2, <2>6 DEF Restart, Blamed
    <3>2. ~Blamed => dropped' = {}
      BY <1>4, <2>2, <2>6 DEF Lose, DeliveryIInv
    <3> QED
      BY <2>2, <2>4, <3>1, <3>2
  <2> QED
    BY <2>5, <2>6
<1>10. CASE Recover
  <2>1. ToSet(Merge(inbox, saved)) = ToSet(inbox) \cup ToSet(saved)
    BY <1>1, <1>2, MergeKeepsInbox
  <2>2. /\ inbox' = Merge(inbox, saved) /\ dirty' = TRUE
        /\ UNCHANGED <<relay, seen, dropped, clock, faults>>
    BY <1>10 DEF Recover
  <2>3. \A e \in seen' : Settled(e)'
    BY <1>1, <1>2, <1>3, <2>1, <2>2, SettledStays
  <2> QED
    BY <1>4, <2>2, <2>3 DEF Blamed
<1>11. CASE (\E e \in Events : Publish(e)) \/ CorruptCursor \/ UNCHANGED vars
  <2>1. /\ UNCHANGED <<seen, inbox, saved, dirty, dropped, clock>>
        /\ relay \subseteq relay' /\ (faults' = faults \/ Fault("corrupted"))
    BY <1>11 DEF Publish, CorruptCursor, vars
  <2>2. Blamed => Blamed'
    BY <1>1, <2>1, BlameStays
  <2> QED
    BY <1>3, <1>4, <2>1, <2>2 DEF Settled, Expired, DeliveryIInv
<1>12. CASE Tick
  <2>1. UNCHANGED <<relay, seen, inbox, saved, dirty, dropped, faults>> /\ clock' = clock + 1
    BY <1>12 DEF Tick
  <2>2. \A e \in seen' : Settled(e)'
    BY <1>1, <1>2, <1>3, <2>1, SettledStays
  <2> QED
    BY <1>4, <2>1, <2>2 DEF DeliveryIInv, Blamed
<1> QED
  BY <1>5, <1>6, <1>7, <1>8, <1>9, <1>10, <1>11, <1>12 DEF Next

\* Whatever the limit, the order of the answers, the cap of the cursor, the restarts and
\* the faults: an event that is marked as seen has been delivered, needed no delivery or
\* was dropped, and none is dropped unless a write failed, the process was killed or the
\* channel holds an event on which validation raises.
THEOREM SeenStaysDelivered == Spec => []SeenIsDelivered
<1>1. Init => DeliveryIInv
  BY InitIInv DEF Init, DeliveryIInv, SeenIsDelivered
<1>2. DeliveryIInv /\ [Next]_vars => DeliveryIInv'
  BY NextDelivers
<1>3. DeliveryIInv => SeenIsDelivered
  BY DEF DeliveryIInv
<1> QED
  BY <1>1, <1>2, <1>3, PTL DEF Spec
==============================================================================
