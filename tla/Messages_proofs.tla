---------------------------- MODULE Messages_proofs ----------------------------
(***************************************************************************)
(* Two stores of messages that may have to let some go.  The hand-off      *)
(* between a stream's pump and its writer (Ring) loses nothing it does not *)
(* count, keeps the newest, never sleeps through a notify, and does what   *)
(* DropOldest says, for every capacity and every number of pushes.  The    *)
(* store of a bounded window (MessagePages) has no holes, however its      *)
(* pages are read, filtered, cut, lost and late while the log moves on,    *)
(* and a walk back that says it is at the end is.                          *)
(***************************************************************************)
EXTENDS Ring, MessagePages, TLAPS, FiniteSetTheorems, SequenceTheorems

(***************************************************************************)
(* The hand-off                                                            *)
(***************************************************************************)
\* Appending to a bounded queue leaves its newest entries: how many leave
\* the front, and which are left.
LEMMA NewestOf ==
  ASSUME NEW q \in Seq(Items), NEW item \in Items, Len(q) <= Capacity
  PROVE  LET a == Append(q, item)
         IN /\ Excess(a) \in {0, 1}
            /\ Newest(a) \in Seq(Items)
            /\ Len(Newest(a)) = Len(q) + 1 - Excess(a)
            /\ Len(Newest(a)) <= Capacity
            /\ \A i \in 1 .. Len(Newest(a)) : Newest(a)[i] = a[i + Excess(a)]
<1> DEFINE a == Append(q, item)
<1>1. a \in Seq(Items) /\ Len(a) = Len(q) + 1
  OBVIOUS
<1>2. Len(q) \in Nat /\ Capacity \in Nat \ {0}
  BY CapacityAssumption
<1>3. Excess(a) \in {0, 1} /\ Len(a) - Excess(a) <= Capacity
  BY <1>1, <1>2 DEF Excess
<1>4. Newest(a) = SubSeq(a, Excess(a) + 1, Len(a))
  BY DEF Newest
<1> HIDE DEF a
<1>5. /\ Newest(a) \in Seq(Items)
      /\ Len(Newest(a)) = Len(a) - Excess(a)
      /\ \A i \in 1 .. Len(Newest(a)) : Newest(a)[i] = a[i + Excess(a)]
  <2>1. Excess(a) + 1 \in 1 .. Len(a) + 1 /\ Len(a) \in Nat
    BY <1>1, <1>2, <1>3
  <2> QED
    BY <2>1, <1>1, <1>3, <1>4
<1> QED
  BY <1>1, <1>2, <1>3, <1>5 DEF a

\* Pushing one item and evicting e shifts the front of the window by e.
LEMMA WindowShift ==
  ASSUME NEW p \in Nat, NEW n \in Nat, NEW e \in {0, 1}, NEW i \in Nat
  PROVE  (p + 1) - (n + 1 - e) + i = p - n + (i + e)
OBVIOUS

LEMMA InitInvariant == RingInit => RingInv
<1> SUFFICES ASSUME RingInit PROVE RingInv
  OBVIOUS
<1>1. RingTypeOK
  <2>1. TypeOK
    <3>1. queue \in Seq(Items)
      BY DEF RingInit, Fresh
    <3>2. Len(queue) = 0
      BY DEF RingInit, Fresh
    <3>3. 0 <= Capacity
      BY CapacityAssumption
    <3> QED
      BY <3>1, <3>2, <3>3 DEF RingInit, Fresh, TypeOK
  <2>2. pushed \in 0 .. MaxPushes /\ received \in Seq(Items)
    BY ItemsAssumption DEF RingInit
  <2> QED
    BY <2>1, <2>2 DEF RingInit, RingTypeOK
<1>2. KeepsNewest /\ NothingUnaccounted /\ NoLostWakeup
  BY DEF RingInit, Fresh, KeepsNewest, NothingUnaccounted, NoLostWakeup
<1> QED
  BY <1>1, <1>2 DEF RingInv, RingInit, Fresh

\* A push: the slots change here, the signals not yet.
LEMMA PushInvariant ==
  ASSUME RingInv, Push
  PROVE  RingInv'
<1> DEFINE item == pushed + 1
           a == Append(queue, item)
<1>1. /\ queue \in Seq(Items) /\ Len(queue) <= Capacity /\ Len(queue) \in Nat
      /\ pushed \in Nat /\ item \in Items /\ dropped \in Nat
      /\ Len(received) \in Nat
  BY ItemsAssumption DEF RingInv, RingTypeOK, TypeOK, Push
<1>2. /\ queue' = Newest(a) /\ dropped' = dropped + Excess(a)
      /\ pushed' = pushed + 1 /\ sender' = "notifying"
      /\ UNCHANGED <<senderGone, receiverGone, received, recv, watch, leaving,
                     readyPermit, closedPermit>>
      /\ ~senderGone /\ ~receiverGone /\ pushed < MaxPushes
  BY DEF Push, Send
<1>3. /\ Excess(a) \in {0, 1}
      /\ queue' \in Seq(Items)
      /\ Len(queue') = Len(queue) + 1 - Excess(a)
      /\ Len(queue') <= Capacity
      /\ \A i \in 1 .. Len(queue') : queue'[i] = a[i + Excess(a)]
  BY <1>1, <1>2, NewestOf
<1>4. \A i \in 1 .. Len(queue) + 1 : a[i] = pushed - Len(queue) + i
  <2>1. Len(queue) <= pushed /\ \A i \in 1 .. Len(queue) : queue[i] = pushed - Len(queue) + i
    BY DEF RingInv, KeepsNewest
  <2>2. \A i \in 1 .. Len(queue) : a[i] = queue[i]
    BY <1>1
  <2>3. a[Len(queue) + 1] = pushed + 1
    BY <1>1
  <2> QED
    BY <1>1, <2>1, <2>2, <2>3
<1> HIDE DEF item, a
<1>5. RingTypeOK'
  BY <1>1, <1>2, <1>3, ItemsAssumption DEF RingInv, RingTypeOK, TypeOK
<1>6. KeepsNewest'
  <2>1. Len(queue') <= pushed'
    BY <1>1, <1>2, <1>3 DEF RingInv, KeepsNewest
  <2>2. ASSUME NEW i \in 1 .. Len(queue')
        PROVE  queue'[i] = pushed' - Len(queue') + i
    <3>1. i + Excess(a) \in 1 .. Len(queue) + 1 /\ Len(queue') \in Nat
      BY <1>1, <1>3
    <3>2. queue'[i] = pushed - Len(queue) + (i + Excess(a))
      BY <1>3, <1>4, <3>1
    <3>3. i \in Nat
      BY <3>1
    <3>4. (pushed + 1) - (Len(queue) + 1 - Excess(a)) + i = pushed - Len(queue) + (i + Excess(a))
      <4>1. PICK l, m, e : l = pushed /\ m = Len(queue) /\ e = Excess(a)
        OBVIOUS
      <4>2. l \in Nat /\ m \in Nat /\ e \in {0, 1}
        BY <1>1, <1>3, <4>1
      <4>3. (l + 1) - (m + 1 - e) + i = l - m + (i + e)
        BY <3>3, <4>2, WindowShift
      <4> QED BY <4>1, <4>3
    <3>5. pushed' = pushed + 1 /\ Len(queue') = Len(queue) + 1 - Excess(a)
      BY <1>2, <1>3
    <3> QED
      BY <3>2, <3>4, <3>5
  <2> QED
    BY <2>1, <2>2 DEF KeepsNewest
<1>7. NothingUnaccounted'
  BY <1>1, <1>2, <1>3 DEF RingInv, NothingUnaccounted
<1>8. NoLostWakeup'
  BY <1>2 DEF RingInv, NoLostWakeup
<1> QED
  BY <1>2, <1>5, <1>6, <1>7, <1>8 DEF RingInv, AtEnd

\* Taking an item moves it from the queue to what was received.
LEMMA RecvItemInvariant ==
  ASSUME RingInv, RecvItem
  PROVE  RingInv'
<1>1. /\ queue \in Seq(Items) /\ queue # <<>> /\ received \in Seq(Items)
      /\ pushed \in Nat /\ dropped \in Nat
  BY DEF RingInv, RingTypeOK, TypeOK, RecvItem, Take
<1>2. /\ queue' = Tail(queue) /\ received' = Append(received, Head(queue))
      /\ UNCHANGED <<dropped, senderGone, receiverGone, pushed, sender, recv, watch,
                     leaving, readyPermit, closedPermit>>
      /\ recv = "looking"
  BY DEF RecvItem, Take, signals
<1>3. /\ queue' \in Seq(Items) /\ Len(queue') = Len(queue) - 1 /\ Len(queue) >= 1
      /\ Len(queue) \in Nat
      /\ \A i \in 1 .. Len(queue') : queue'[i] = queue[i + 1]
  BY <1>1, <1>2
<1>4. /\ received' \in Seq(Items) /\ Len(received') = Len(received) + 1
      /\ Len(received) \in Nat
  BY <1>1, <1>2
<1>5. RingTypeOK'
  <2>1. Len(queue') <= Capacity
    BY <1>3, CapacityAssumption DEF RingInv, RingTypeOK, TypeOK
  <2> QED
    BY <1>2, <1>3, <1>4, <2>1 DEF RingInv, RingTypeOK, TypeOK
<1>6. KeepsNewest'
  <2>1. Len(queue) <= pushed /\ \A i \in 1 .. Len(queue) : queue[i] = pushed - Len(queue) + i
    BY DEF RingInv, KeepsNewest
  <2>2. ASSUME NEW i \in 1 .. Len(queue')
        PROVE  queue'[i] = pushed' - Len(queue') + i
    <3>1. i + 1 \in 1 .. Len(queue)
      BY <1>3
    <3> QED
      BY <1>1, <1>2, <1>3, <2>1, <3>1
  <2> QED
    BY <1>1, <1>2, <1>3, <2>1, <2>2 DEF KeepsNewest
<1>7. NothingUnaccounted'
  BY <1>1, <1>2, <1>3, <1>4 DEF RingInv, NothingUnaccounted
<1>8. NoLostWakeup'
  BY <1>2 DEF RingInv, NoLostWakeup
<1> QED
  BY <1>2, <1>5, <1>6, <1>7, <1>8 DEF RingInv, AtEnd

\* Every other step leaves the queue, the count and what was received alone:
\* only the signalling parts of the invariant are at stake.
LEMMA SignalInvariant ==
  ASSUME RingInv,
         \/ PushIgnored \/ DropSender \/ NotifyReady
         \/ RecvEnds \/ RecvEmpty \/ RecvAwait
         \/ DropReceiver \/ NotifyClosed \/ Watch
  PROVE  RingInv'
<1>1. UNCHANGED <<queue, dropped, pushed, received>>
  BY DEF PushIgnored, DropSender, NotifyReady, RecvEnds, RecvEmpty, RecvAwait,
         DropReceiver, NotifyClosed, Watch, WatchLooks, WatchAwaits, slots,
         Send, LeaveSender, LeaveReceiver
<1>2. RingTypeOK' /\ NoLostWakeup' /\ ((recv = "gone") <=> receiverGone)'
      /\ ((recv = "ended") => AtEnd)' /\ ((sender = "gone") => senderGone)'
      /\ (senderGone => (sender # "idle"))'
  <2>1. CASE PushIgnored
    BY <2>1, <1>1 DEF PushIgnored, Send, signals, RingInv, RingTypeOK, TypeOK, NoLostWakeup, AtEnd
  <2>2. CASE DropSender
    BY <2>2, <1>1 DEF DropSender, LeaveSender, RingInv, RingTypeOK, TypeOK, NoLostWakeup, AtEnd
  <2>3. CASE NotifyReady
    BY <2>3, <1>1 DEF NotifyReady, slots, RingInv, RingTypeOK, TypeOK, NoLostWakeup, AtEnd
  <2>4. CASE RecvEnds
    BY <2>4, <1>1 DEF RecvEnds, slots, RingInv, RingTypeOK, TypeOK, NoLostWakeup, AtEnd
  <2>5. CASE RecvEmpty
    BY <2>5, <1>1 DEF RecvEmpty, slots, RingInv, RingTypeOK, TypeOK, NoLostWakeup, AtEnd
  <2>6. CASE RecvAwait
    BY <2>6, <1>1 DEF RecvAwait, slots, RingInv, RingTypeOK, TypeOK, NoLostWakeup, AtEnd
  <2>7. CASE DropReceiver
    BY <2>7, <1>1 DEF DropReceiver, LeaveReceiver, RingInv, RingTypeOK, TypeOK, NoLostWakeup, AtEnd
  <2>8. CASE NotifyClosed
    BY <2>8, <1>1 DEF NotifyClosed, slots, RingInv, RingTypeOK, TypeOK, NoLostWakeup, AtEnd
  <2>9. CASE WatchLooks
    BY <2>9, <1>1 DEF WatchLooks, slots, RingInv, RingTypeOK, TypeOK, NoLostWakeup, AtEnd
  <2>10. CASE WatchAwaits
    BY <2>10, <1>1 DEF WatchAwaits, slots, RingInv, RingTypeOK, TypeOK, NoLostWakeup, AtEnd
  <2> QED
    BY <2>1, <2>2, <2>3, <2>4, <2>5, <2>6, <2>7, <2>8, <2>9, <2>10 DEF Watch
<1>3. KeepsNewest' /\ NothingUnaccounted'
  BY <1>1 DEF RingInv, KeepsNewest, NothingUnaccounted
<1> QED
  BY <1>2, <1>3 DEF RingInv

LEMMA NextInvariant ==
  ASSUME RingInv, [RingNext]_ringVars
  PROVE  RingInv'
<1>1. CASE RingNext
  BY <1>1, PushInvariant, RecvItemInvariant, SignalInvariant DEF RingNext, Recv
<1>2. CASE UNCHANGED ringVars
  BY <1>2 DEF ringVars, slots, signals, RingInv, RingTypeOK, TypeOK, KeepsNewest,
              NothingUnaccounted, NoLostWakeup, AtEnd
<1> QED
  BY <1>1, <1>2

\* The hand-off as streaming.rs builds it: whatever the interleaving of
\* pushes, looks, awaits and drops, the whole invariant holds.
THEOREM RingInvariant == RingSafety => []RingInv
<1>1. RingInit => RingInv
  BY InitInvariant
<1>2. RingInv /\ [RingNext]_ringVars => RingInv'
  BY NextInvariant
<1> QED
  BY <1>1, <1>2, PTL DEF RingSafety

\* Nothing pushed is lost without being counted (Sender::push).
THEOREM RingAccounts == RingSafety => []NothingUnaccounted
<1>1. RingInv => NothingUnaccounted
  BY DEF RingInv
<1> QED
  BY <1>1, RingInvariant, PTL

\* What an overflow leaves is the newest, in order and without a gap, and what it
\* took is in the drop count.
THEOREM RingKeepsNewest == RingSafety => []OverflowIsTold
<1>1. RingInv => OverflowIsTold
  BY DEF RingInv, OverflowIsTold
<1> QED
  BY <1>1, RingInvariant, PTL

\* No interleaving of a notify with a look and an await loses a wakeup.
THEOREM RingWakes == RingSafety => []NoLostWakeup
<1>1. RingInv => NoLostWakeup
  BY DEF RingInv
<1> QED
  BY <1>1, RingInvariant, PTL

\* The signalled hand-off implements the abstract one: each step is one of
\* DropOldest's or leaves the slots alone.
THEOREM RingImplements == RingSafety => Spec
<1>1. RingInit => Fresh
  BY DEF RingInit
<1>2. RingInv /\ [RingNext]_ringVars => [Next]_slots
  <2> SUFFICES ASSUME RingInv, [RingNext]_ringVars PROVE [Next]_slots
    OBVIOUS
  <2>1. CASE PushIgnored
    <3>1. pushed + 1 \in Items
      BY <2>1, ItemsAssumption DEF PushIgnored, RingInv, RingTypeOK
    <3> QED
      BY <3>1, <2>1 DEF PushIgnored, Next
  <2>2. CASE Push
    <3>1. pushed + 1 \in Items
      BY <2>2, ItemsAssumption DEF Push, RingInv, RingTypeOK
    <3> QED
      BY <3>1, <2>2 DEF Push, Next
  <2>3. CASE DropSender \/ RecvItem \/ DropReceiver
    BY <2>3 DEF DropSender, RecvItem, DropReceiver, Next
  <2>4. CASE NotifyReady \/ RecvEnds \/ RecvEmpty \/ RecvAwait \/ NotifyClosed \/ Watch
    BY <2>4 DEF NotifyReady, RecvEnds, RecvEmpty, RecvAwait, NotifyClosed, Watch,
                WatchLooks, WatchAwaits
  <2>5. CASE UNCHANGED ringVars
    BY <2>5 DEF ringVars
  <2> QED
    BY <2>1, <2>2, <2>3, <2>4, <2>5 DEF RingNext, Recv
<1> QED
  BY <1>1, <1>2, RingInvariant, PTL DEF RingSafety, Spec

-----------------------------------------------------------------------------
(***************************************************************************)
(* What a store shows                                                      *)
(***************************************************************************)
RowSet == [p : Partitions, o : Nat, window : Nat]
IdSet  == Partitions \X Nat

\* The offsets of partition p among rows, and among the ids of a page.
Shows(store, p) == {o \in Nat : \E i \in 1 .. Len(store) : store[i].p = p /\ store[i].o = o}
Gives(ids, p)   == {o \in Nat : \E i \in 1 .. Len(ids) : ids[i] = <<p, o>>}

\* In each partition a later one has a lower offset.
Falls(store)  == \A i, j \in 1 .. Len(store) : i < j /\ store[i].p = store[j].p => store[j].o < store[i].o
FallsIds(ids) == \A i, j \in 1 .. Len(ids) : i < j /\ ids[i][1] = ids[j][1] => ids[j][2] < ids[i][2]

-----------------------------------------------------------------------------
(***************************************************************************)
(* Numbers                                                                 *)
(***************************************************************************)
LEMMA Least ==
  ASSUME NEW S \in SUBSET Nat, S # {}
  PROVE  \E x \in S : \A y \in S : x <= y
<1> DEFINE R == OpToRel(<, Nat)
<1>1. IsWellFoundedOn(R, Nat)
  BY NatLessThanWellFounded
<1>2. \A x, y \in Nat : x < y => <<x, y>> \in R
  BY DEF OpToRel
<1> HIDE DEF R
<1>3. PICK x \in S : \A y \in S : ~ (<<y, x>> \in R)
  BY <1>1, WFMin
<1>4. \A y \in S : ~ (y < x)
  BY <1>2, <1>3
<1> QED BY <1>4

LEMMA MinIs ==
  ASSUME NEW S \in SUBSET Nat, S # {}
  PROVE  Min(S) \in S /\ \A y \in S : Min(S) <= y
BY Least DEF Min

LEMMA MaxIs ==
  ASSUME NEW n \in Nat, NEW S \in SUBSET (0 .. n), S # {}
  PROVE  Max(S) \in S /\ \A y \in S : y <= Max(S)
<1> DEFINE D == {n - x : x \in S}
<1>1. D \in SUBSET Nat /\ D # {}
  <2>1. \A x \in S : n - x \in Nat
    OBVIOUS
  <2>2. D # {}
    OBVIOUS
  <2> QED BY <2>1, <2>2
<1>2. PICK d \in D : \A y \in D : d <= y
  BY <1>1, Least
<1>3. PICK m \in S : d = n - m
  BY <1>2
<1>4. \A y \in S : y <= m
  BY <1>2, <1>3
<1>5. \A y \in S : m >= y
  BY <1>4
<1> QED BY <1>3, <1>5 DEF Max

RankIn(S, i) == Cardinality({j \in S : j <= i})

\* The members of a finite set of numbers, by their rank.
LEMMA NthMember ==
  ASSUME NEW n \in Nat, NEW S \in SUBSET (1 .. n)
  PROVE  /\ Cardinality(S) \in Nat
         /\ \A k \in 1 .. Cardinality(S) : Nth(S, k) \in S
         /\ \A k, l \in 1 .. Cardinality(S) : k < l => Nth(S, k) < Nth(S, l)
         /\ \A i \in S : \E k \in 1 .. Cardinality(S) : Nth(S, k) = i
<1> DEFINE upTo(i) == {j \in S : j <= i}
           rank == [i \in S |-> RankIn(S, i)]
<1>1. PICK c : c = Cardinality(S)
  OBVIOUS
<1>2. IsFiniteSet(S) /\ c \in Nat
  <2>1. IsFiniteSet(1 .. n)
    BY FS_Interval
  <2> QED BY <1>1, <2>1, FS_Subset, FS_CardinalityType
<1>3. \A i \in S : i \in Nat
  OBVIOUS
<1>4. ASSUME NEW i \in S PROVE IsFiniteSet(upTo(i)) /\ RankIn(S, i) \in Nat \ {0} /\ RankIn(S, i) <= c
  <2>1. upTo(i) \in SUBSET S /\ i \in upTo(i)
    OBVIOUS
  <2>2. IsFiniteSet(upTo(i)) /\ Cardinality(upTo(i)) <= c /\ Cardinality(upTo(i)) \in Nat
    BY <1>1, <1>2, <2>1, FS_Subset, FS_CardinalityType
  <2>3. Cardinality(upTo(i)) # 0
    BY <2>1, <2>2, FS_EmptySet
  <2> QED BY <2>2, <2>3 DEF RankIn
<1>5. ASSUME NEW i \in S PROVE RankIn(S, i) \in Nat /\ RankIn(S, i) \in 1 .. c
  <2>1. PICK r : r = RankIn(S, i)
    OBVIOUS
  <2>2. r \in Nat \ {0} /\ r <= c
    BY <1>4, <2>1
  <2> QED BY <1>2, <2>1, <2>2
<1>6. ASSUME NEW i \in S, NEW j \in S, i < j PROVE RankIn(S, i) < RankIn(S, j)
  <2>1. i \in Nat /\ j \in Nat
    BY <1>3
  <2>2. \A k \in upTo(i) : k \in upTo(j)
    <3>1. \A k \in Nat : k <= i => k <= j
      BY <2>1, <1>6
    <3> QED BY <1>3, <3>1
  <2>3. j \in upTo(j) /\ j \notin upTo(i)
    BY <2>1, <1>6
  <2>4. Cardinality(upTo(i)) <= Cardinality(upTo(j)) /\ Cardinality(upTo(i)) # Cardinality(upTo(j))
    <3>1. upTo(i) \in SUBSET upTo(j) /\ upTo(i) # upTo(j) /\ IsFiniteSet(upTo(j))
      BY <1>4, <2>2, <2>3
    <3> HIDE DEF upTo
    <3> QED BY <3>1, FS_Subset
  <2>5. RankIn(S, i) <= RankIn(S, j) /\ RankIn(S, i) # RankIn(S, j)
    BY <2>4 DEF RankIn
  <2>6. RankIn(S, i) \in Nat /\ RankIn(S, j) \in Nat
    BY <1>5
  <2> QED BY <2>5, <2>6
<1>7. \A i, j \in S : RankIn(S, i) = RankIn(S, j) => i = j
  <2> SUFFICES ASSUME NEW i \in S, NEW j \in S, RankIn(S, i) = RankIn(S, j) PROVE i = j
    OBVIOUS
  <2>1. i \in Nat /\ j \in Nat /\ RankIn(S, i) \in Nat /\ RankIn(S, j) \in Nat
    BY <1>3, <1>5
  <2>2. ~(i < j) /\ ~(j < i)
    BY <1>6, <2>1
  <2> QED BY <2>1, <2>2
<1>8. \A k \in 1 .. c : \E i \in S : RankIn(S, i) = k
  <2>1. rank \in Injection(S, 1 .. c)
    BY <1>5, <1>7 DEF Injection, IsInjective
  <2>2. IsFiniteSet(1 .. c) /\ Cardinality(1 .. c) = c
    BY <1>2, FS_Interval
  <2>3. rank \in Surjection(S, 1 .. c)
    <3> HIDE DEF rank
    <3> QED BY <1>1, <2>1, <2>2, FS_Injection
  <2> QED BY <2>3 DEF Surjection
<1>9. \A k \in 1 .. c : Nth(S, k) \in S /\ RankIn(S, Nth(S, k)) = k
  BY <1>8 DEF Nth, RankIn
<1>10. ASSUME NEW k \in 1 .. c, NEW l \in 1 .. c, k < l PROVE Nth(S, k) < Nth(S, l)
  <2>1. PICK a, b : a = Nth(S, k) /\ b = Nth(S, l)
    OBVIOUS
  <2>2. a \in S /\ b \in S /\ RankIn(S, a) = k /\ RankIn(S, b) = l
    BY <1>9, <2>1
  <2>3. a \in Nat /\ b \in Nat /\ k \in Nat /\ l \in Nat
    BY <1>2, <1>3, <2>2
  <2>4. a # b /\ (b < a => l < k)
    BY <1>6, <2>2, <2>3, <1>10
  <2> QED BY <2>1, <2>3, <2>4, <1>10
<1>11. \A i \in S : Nth(S, RankIn(S, i)) = i /\ RankIn(S, i) \in 1 .. c
  BY <1>5, <1>7, <1>9
<1> QED BY <1>1, <1>2, <1>9, <1>10, <1>11

(***************************************************************************)
(* Pushing a page                                                          *)
(***************************************************************************)

\* `store` and then the ids of a page it did not have, in their order.
Lengthens(long, store, ids, w, c, pos) ==
  /\ c \in Nat /\ long \in Seq(RowSet) /\ Len(long) = Len(store) + c
  /\ \A i \in 1 .. Len(store) : long[i] = store[i]
  /\ \A k \in 1 .. c : long[Len(store) + k] = Row(ids[pos[k]], w)
  /\ \A k \in 1 .. c : pos[k] \in Unseen(store, ids)
  /\ \A k, l \in 1 .. c : k < l => pos[k] < pos[l]
  /\ \A i \in Unseen(store, ids) : \E k \in 1 .. c : pos[k] = i

LEMMA JoinedAt ==
  ASSUME NEW store \in Seq(RowSet), NEW ids \in Seq(IdSet), NEW w \in Nat
  PROVE  \E c, pos : Lengthens(Joined(store, ids, w), store, ids, w, c, pos)
<1>1. PICK U : U = Unseen(store, ids)
  OBVIOUS
<1>2. PICK c : c = Cardinality(U)
  OBVIOUS
<1>3. PICK m : m = Len(ids)
  OBVIOUS
<1>4. m \in Nat /\ U \in SUBSET (1 .. m) /\ \A i \in 1 .. m : ids[i] \in IdSet
  <2>1. m \in Nat /\ DOMAIN ids = 1 .. m
    BY <1>3, LenProperties
  <2>2. \A i \in 1 .. m : ids[i] \in IdSet
    BY <1>3, ElementOfSeq
  <2> QED BY <1>1, <2>1, <2>2 DEF Unseen
<1>5. /\ c \in Nat
      /\ \A k \in 1 .. c : Nth(U, k) \in U
      /\ \A k, l \in 1 .. c : k < l => Nth(U, k) < Nth(U, l)
      /\ \A i \in U : \E k \in 1 .. c : Nth(U, k) = i
  BY <1>2, <1>4, NthMember
<1>6. PICK pos : pos = [k \in 1 .. c |-> Nth(U, k)]
  OBVIOUS
<1>7. \A k \in 1 .. c : pos[k] = Nth(U, k)
  BY <1>6
<1>8. /\ \A k \in 1 .. c : pos[k] \in U
      /\ \A k, l \in 1 .. c : k < l => pos[k] < pos[l]
      /\ \A i \in U : \E k \in 1 .. c : pos[k] = i
  BY <1>5, <1>7
<1>9. \A k \in 1 .. c : Row(ids[pos[k]], w) \in RowSet
  <2>1. \A id \in IdSet : Row(id, w) \in RowSet
    BY DEF IdSet, Row, RowSet
  <2>2. \A k \in 1 .. c : ids[pos[k]] \in IdSet
    BY <1>4, <1>8
  <2> QED BY <2>1, <2>2
<1>10. PICK t : t = [k \in 1 .. c |-> Row(ids[Nth(U, k)], w)]
  OBVIOUS
<1>11. \A k \in 1 .. c : t[k] = Row(ids[pos[k]], w)
  BY <1>7, <1>10
<1>12. t \in Seq(RowSet) /\ Len(t) = c
  BY <1>5, <1>7, <1>9, <1>10
<1>13. Joined(store, ids, w) = store \o t
  BY <1>1, <1>2, <1>10 DEF Joined
<1>14. /\ store \o t \in Seq(RowSet)
       /\ Len(store \o t) = Len(store) + Len(t)
       /\ \A i \in 1 .. Len(store) + Len(t) : (store \o t)[i] = IF i <= Len(store) THEN store[i] ELSE t[i - Len(store)]
  BY <1>12, ConcatProperties
<1>15. PICK long, n : long = store \o t /\ n = Len(store)
  OBVIOUS
<1>16. /\ n \in Nat /\ long \in Seq(RowSet) /\ Len(long) = n + c
       /\ \A i \in 1 .. n + c : long[i] = IF i <= n THEN store[i] ELSE t[i - n]
  BY <1>12, <1>14, <1>15
<1>17. \A i \in 1 .. n : long[i] = store[i]
  <2> SUFFICES ASSUME NEW i \in 1 .. n PROVE long[i] = store[i]
    OBVIOUS
  <2>1. i \in 1 .. n + c /\ i <= n
    BY <1>5, <1>16
  <2> QED BY <1>16, <2>1
<1>18. \A k \in 1 .. c : long[n + k] = Row(ids[pos[k]], w)
  <2> SUFFICES ASSUME NEW k \in 1 .. c PROVE long[n + k] = Row(ids[pos[k]], w)
    OBVIOUS
  <2>1. n + k \in 1 .. n + c /\ ~(n + k <= n) /\ (n + k) - n = k
    BY <1>5, <1>16
  <2>2. long[n + k] = t[(n + k) - n]
    BY <1>16, <2>1
  <2> QED BY <1>11, <2>1, <2>2
<1>19. Lengthens(long, store, ids, w, c, pos)
  BY <1>1, <1>5, <1>8, <1>15, <1>16, <1>17, <1>18 DEF Lengthens
<1> QED BY <1>13, <1>15, <1>19

\* The cap drops d rows of it from the front.
Drops(st, long, d) ==
  /\ d \in Nat /\ d <= Len(long) /\ st \in Seq(RowSet) /\ Len(st) = Len(long) - d
  /\ \A i \in 1 .. Len(st) : st[i] = long[i + d]
  /\ d # 0 => Len(st) = Cap

LEMMA PushedDrops ==
  ASSUME NEW store \in Seq(RowSet), NEW ids \in Seq(IdSet), NEW w \in Nat
  PROVE  \E d : Drops(Pushed(store, ids, w), Joined(store, ids, w), d)
<1>1. PICK long, n : long = Joined(store, ids, w) /\ n = Len(long)
  OBVIOUS
<1>2. long \in Seq(RowSet) /\ n \in Nat /\ \A i \in 1 .. n : long[i] \in RowSet
  <2>1. long \in Seq(RowSet)
    BY <1>1, JoinedAt DEF Lengthens
  <2> QED BY <1>1, <2>1, LenProperties, ElementOfSeq
<1>3. Cap \in Nat \ {0}
  BY PagesAssumption
<1>4. CASE n > Cap
  <2>1. PICK d : d = n - Cap
    OBVIOUS
  <2>2. d \in Nat /\ d # 0 /\ d <= n /\ n - Cap + 1 = d + 1
    BY <1>2, <1>3, <1>4, <2>1
  <2>3. Pushed(store, ids, w) = SubSeq(long, d + 1, n)
    BY <1>1, <1>4, <2>2 DEF Pushed
  <2>4. /\ SubSeq(long, d + 1, n) \in Seq(RowSet)
        /\ Len(SubSeq(long, d + 1, n)) = IF d + 1 <= n THEN n - (d + 1) + 1 ELSE 0
        /\ \A i \in 1 .. n - (d + 1) + 1 : SubSeq(long, d + 1, n)[i] = long[(d + 1) + i - 1]
    <3>1. d + 1 \in Int /\ n \in Int /\ \A i \in d + 1 .. n : long[i] \in RowSet
      BY <1>2, <2>2
    <3> QED BY <3>1, SubSeqProperties
  <2>5. PICK st : st = Pushed(store, ids, w)
    OBVIOUS
  <2>6. st \in Seq(RowSet) /\ Len(st) = n - d /\ Len(st) = Cap
    BY <1>2, <1>3, <2>1, <2>2, <2>3, <2>4, <2>5
  <2>7. \A i \in 1 .. Len(st) : st[i] = long[i + d]
    <3> SUFFICES ASSUME NEW i \in 1 .. Len(st) PROVE st[i] = long[i + d]
      OBVIOUS
    <3>1. i \in 1 .. n - (d + 1) + 1 /\ (d + 1) + i - 1 = i + d
      BY <1>2, <2>2, <2>6
    <3> QED BY <2>3, <2>4, <2>5, <3>1
  <2> QED BY <1>1, <2>2, <2>5, <2>6, <2>7 DEF Drops
<1>5. CASE ~(n > Cap)
  <2>1. Pushed(store, ids, w) = long
    BY <1>1, <1>5 DEF Pushed
  <2>2. \A i \in 1 .. n : i + 0 = i
    BY <1>2
  <2>3. Drops(long, long, 0)
    BY <1>1, <1>2, <2>2 DEF Drops
  <2> QED BY <1>1, <2>1, <2>3
<1> QED BY <1>4, <1>5

\* A push, taken apart.
Pushing(st, long, store, ids, w, c, pos, d) ==
  /\ st = Pushed(store, ids, w) /\ long = Joined(store, ids, w)
  /\ Lengthens(long, store, ids, w, c, pos)
  /\ Drops(st, long, d)

LEMMA PushIs ==
  ASSUME NEW store \in Seq(RowSet), NEW ids \in Seq(IdSet), NEW w \in Nat
  PROVE  \E st, long, c, pos, d : Pushing(st, long, store, ids, w, c, pos, d)
<1>1. PICK c, pos : Lengthens(Joined(store, ids, w), store, ids, w, c, pos)
  BY JoinedAt
<1>2. PICK d : Drops(Pushed(store, ids, w), Joined(store, ids, w), d)
  BY PushedDrops
<1> QED BY <1>1, <1>2 DEF Pushing

\* What the definitions say of it, in numbers.
Numbered(st, long, store, ids, w, c, pos, d, n, m) ==
  /\ n \in Nat /\ m \in Nat /\ c \in Nat /\ d \in Nat /\ d <= n + c
  /\ Len(long) = n + c /\ Len(st) = n + c - d
  /\ \A i \in 1 .. n : store[i] \in RowSet /\ long[i] = store[i]
  /\ \A i \in 1 .. m : ids[i] \in IdSet
  /\ \A k \in 1 .. c : pos[k] \in 1 .. m /\ long[n + k] = Row(ids[pos[k]], w)
  /\ \A k \in 1 .. c, j \in 1 .. n : Id(store[j]) # ids[pos[k]]
  /\ \A k, l \in 1 .. c : k < l => pos[k] < pos[l]
  /\ \A i \in 1 .. m : (\E j \in 1 .. n : Id(store[j]) = ids[i]) \/ \E k \in 1 .. c : pos[k] = i
  /\ \A i \in 1 .. n + c - d : st[i] = long[i + d]
  /\ d # 0 => n + c - d = Cap
  /\ \A a \in 1 .. n + c : a \in 1 .. n \/ \E k \in 1 .. c : a = n + k

LEMMA PushNumbers ==
  ASSUME NEW store \in Seq(RowSet), NEW ids \in Seq(IdSet), NEW w \in Nat,
         NEW st, NEW long, NEW c, NEW pos, NEW d, Pushing(st, long, store, ids, w, c, pos, d)
  PROVE  Numbered(st, long, store, ids, w, c, pos, d, Len(store), Len(ids))
<1>0. PICK n, m : n = Len(store) /\ m = Len(ids)
  OBVIOUS
<1>1. n \in Nat /\ m \in Nat /\ DOMAIN store = 1 .. n /\ DOMAIN ids = 1 .. m
  BY <1>0, LenProperties
<1>2. (\A i \in 1 .. n : store[i] \in RowSet) /\ (\A i \in 1 .. m : ids[i] \in IdSet)
  BY <1>0, ElementOfSeq
<1>3. /\ c \in Nat /\ Len(long) = n + c
      /\ \A i \in 1 .. n : long[i] = store[i]
      /\ \A k \in 1 .. c : long[n + k] = Row(ids[pos[k]], w)
      /\ \A k \in 1 .. c : pos[k] \in Unseen(store, ids)
      /\ \A k, l \in 1 .. c : k < l => pos[k] < pos[l]
      /\ \A i \in Unseen(store, ids) : \E k \in 1 .. c : pos[k] = i
  BY <1>0 DEF Pushing, Lengthens
<1>4. Unseen(store, ids) = {i \in 1 .. m : \A j \in 1 .. n : Id(store[j]) # ids[i]}
  BY <1>1 DEF Unseen
<1>5. /\ d \in Nat /\ d <= Len(long) /\ Len(st) = Len(long) - d
      /\ \A i \in 1 .. Len(st) : st[i] = long[i + d]
      /\ d # 0 => Len(st) = Cap
  BY DEF Pushing, Drops
<1>6. \A a \in 1 .. n + c : a \in 1 .. n \/ \E k \in 1 .. c : a = n + k
  <2> SUFFICES ASSUME NEW a \in 1 .. n + c, a \notin 1 .. n PROVE \E k \in 1 .. c : a = n + k
    OBVIOUS
  <2>1. a - n \in 1 .. c /\ a = n + (a - n)
    BY <1>1, <1>3
  <2> QED BY <2>1
<1>7. /\ \A k \in 1 .. c : pos[k] \in 1 .. m
      /\ \A k \in 1 .. c, j \in 1 .. n : Id(store[j]) # ids[pos[k]]
      /\ \A i \in 1 .. m : (\E j \in 1 .. n : Id(store[j]) = ids[i]) \/ \E k \in 1 .. c : pos[k] = i
  BY <1>3, <1>4
<1>8. Len(st) = n + c - d /\ d <= n + c
  <2>1. PICK l : l = Len(long)
    OBVIOUS
  <2> QED BY <1>1, <1>3, <1>5, <2>1
<1>9. Numbered(st, long, store, ids, w, c, pos, d, n, m)
  BY <1>1, <1>2, <1>3, <1>5, <1>6, <1>7, <1>8 DEF Numbered
<1> QED BY <1>0, <1>9

\* Its rows are the store's and the page's; below the cap it goes on from the
\* store, and is the store when the page adds nothing.
LEMMA PushedRows ==
  ASSUME NEW store \in Seq(RowSet), NEW ids \in Seq(IdSet), NEW w \in Nat,
         NEW st, st = Pushed(store, ids, w)
  PROVE  /\ st \in Seq(RowSet)
         /\ \A i \in 1 .. Len(st) : \/ \E j \in 1 .. Len(store) : st[i] = store[j]
                                    \/ \E j \in 1 .. Len(ids) : st[i] = Row(ids[j], w)
         /\ Len(st) < Cap =>
              /\ Len(store) <= Len(st) /\ \A i \in 1 .. Len(store) : st[i] = store[i]
              /\ (\A i \in 1 .. Len(st) : st[i].window # w) => st = store
<1>1. PICK long, c, pos, d : Pushing(st, long, store, ids, w, c, pos, d)
  BY PushIs DEF Pushing
<1>2. PICK n, m : n = Len(store) /\ m = Len(ids)
  OBVIOUS
<1>3. /\ n \in Nat /\ m \in Nat /\ c \in Nat /\ d \in Nat /\ d <= n + c
      /\ Len(long) = n + c /\ Len(st) = n + c - d
      /\ \A i \in 1 .. n : store[i] \in RowSet /\ long[i] = store[i]
      /\ \A k \in 1 .. c : pos[k] \in 1 .. m /\ long[n + k] = Row(ids[pos[k]], w)
      /\ \A i \in 1 .. n + c - d : st[i] = long[i + d]
      /\ d # 0 => n + c - d = Cap
      /\ \A a \in 1 .. n + c : a \in 1 .. n \/ \E k \in 1 .. c : a = n + k
  <2>1. Numbered(st, long, store, ids, w, c, pos, d, Len(store), Len(ids))
    BY <1>1, PushNumbers
  <2>2. Numbered(st, long, store, ids, w, c, pos, d, n, m)
    BY <1>2, <2>1
  <2> QED BY <2>2 DEF Numbered
<1>4. st \in Seq(RowSet)
  BY <1>1 DEF Pushing, Drops
<1>5. ASSUME NEW i \in 1 .. n + c - d
      PROVE  (\E j \in 1 .. n : st[i] = store[j]) \/ \E j \in 1 .. m : st[i] = Row(ids[j], w)
  <2>1. i + d \in 1 .. n + c /\ st[i] = long[i + d]
    BY <1>3
  <2>2. CASE i + d \in 1 .. n
    BY <1>3, <2>1, <2>2
  <2>3. ASSUME NEW k \in 1 .. c, i + d = n + k PROVE \E j \in 1 .. m : st[i] = Row(ids[j], w)
    <3>1. pos[k] \in 1 .. m /\ st[i] = Row(ids[pos[k]], w)
      BY <1>3, <2>1, <2>3
    <3> QED BY <3>1
  <2> QED BY <1>3, <2>1, <2>2, <2>3
<1>6. ASSUME n + c - d < Cap
      PROVE  /\ n <= n + c - d /\ \A i \in 1 .. n : st[i] = store[i]
             /\ (\A i \in 1 .. n + c - d : st[i].window # w) => st = store
  <2>1. d = 0
    BY <1>3, <1>6, PagesAssumption
  <2>2. \A i \in 1 .. n + c : st[i] = long[i]
    <3>1. \A i \in 1 .. n + c : i + d = i /\ i \in 1 .. n + c - d
      BY <1>3, <2>1
    <3> QED BY <1>3, <3>1
  <2>3. \A i \in 1 .. n : st[i] = store[i]
    <3>1. \A i \in 1 .. n : i \in 1 .. n + c
      BY <1>3
    <3> QED BY <1>3, <2>2, <3>1
  <2>4. ASSUME \A i \in 1 .. n + c - d : st[i].window # w PROVE st = store
    <3>1. c = 0
      <4> SUFFICES ASSUME c # 0 PROVE FALSE
        OBVIOUS
      <4>1. 1 \in 1 .. c /\ n + 1 \in 1 .. n + c /\ n + 1 \in 1 .. n + c - d
        BY <1>3, <2>1
      <4>2. st[n + 1] = Row(ids[pos[1]], w)
        BY <1>3, <2>2, <4>1
      <4>3. st[n + 1].window = w
        BY <4>2 DEF Row
      <4> QED BY <2>4, <4>1, <4>3
    <3>2. Len(st) = Len(store)
      BY <1>2, <1>3, <2>1, <3>1
    <3> QED BY <1>2, <1>4, <2>3, <3>2, SeqEqual
  <2>5. n <= n + c - d
    BY <1>3, <2>1
  <2> QED BY <2>3, <2>4, <2>5
<1> QED BY <1>2, <1>3, <1>4, <1>5, <1>6

\* What it shows: at most what the store showed and the page gives, and all
\* of it below the cap.
LEMMA PushedShows ==
  ASSUME NEW store \in Seq(RowSet), NEW ids \in Seq(IdSet), NEW w \in Nat,
         NEW st, NEW long, NEW c, NEW pos, NEW d, Pushing(st, long, store, ids, w, c, pos, d), NEW p
  PROVE  /\ Shows(long, p) = Shows(store, p) \cup Gives(ids, p)
         /\ Shows(st, p) \subseteq Shows(long, p)
         /\ Len(st) < Cap => Shows(st, p) = Shows(long, p)
<1>2. PICK n, m : n = Len(store) /\ m = Len(ids)
  OBVIOUS
<1>3. /\ n \in Nat /\ m \in Nat /\ c \in Nat /\ d \in Nat /\ d <= n + c
      /\ Len(long) = n + c /\ Len(st) = n + c - d
      /\ \A i \in 1 .. n : store[i] \in RowSet /\ long[i] = store[i]
      /\ \A i \in 1 .. m : ids[i] \in IdSet
      /\ \A k \in 1 .. c : pos[k] \in 1 .. m /\ long[n + k] = Row(ids[pos[k]], w)
      /\ \A i \in 1 .. m : (\E j \in 1 .. n : Id(store[j]) = ids[i]) \/ \E k \in 1 .. c : pos[k] = i
      /\ \A i \in 1 .. n + c - d : st[i] = long[i + d]
      /\ d # 0 => n + c - d = Cap
      /\ \A a \in 1 .. n + c : a \in 1 .. n \/ \E k \in 1 .. c : a = n + k
  <2>1. Numbered(st, long, store, ids, w, c, pos, d, Len(store), Len(ids))
    BY PushNumbers
  <2>2. Numbered(st, long, store, ids, w, c, pos, d, n, m)
    BY <1>2, <2>1
  <2> QED BY <2>2 DEF Numbered
<1>4. \A id \in IdSet : Row(id, w).p = id[1] /\ Row(id, w).o = id[2] /\ id = <<id[1], id[2]>>
  BY DEF Row, IdSet
<1>5. \A k \in 1 .. c : n + k \in 1 .. n + c
  BY <1>3
<1>6. \A i \in 1 .. n : i \in 1 .. n + c
  BY <1>3
<1>7. ASSUME NEW o \in Shows(long, p) PROVE o \in Shows(store, p) \cup Gives(ids, p)
  <2>1. PICK a \in 1 .. n + c : o \in Nat /\ long[a].p = p /\ long[a].o = o
    BY <1>3, <1>7 DEF Shows
  <2>2. CASE a \in 1 .. n
    BY <1>2, <1>3, <2>1, <2>2 DEF Shows
  <2>3. ASSUME NEW k \in 1 .. c, a = n + k PROVE o \in Gives(ids, p)
    <3>1. pos[k] \in 1 .. m /\ long[a] = Row(ids[pos[k]], w) /\ ids[pos[k]] \in IdSet
      BY <1>3, <2>3
    <3>2. ids[pos[k]] = <<p, o>>
      BY <1>4, <2>1, <3>1
    <3> QED BY <1>2, <2>1, <3>1, <3>2 DEF Gives
  <2> QED BY <1>3, <2>1, <2>2, <2>3
<1>8. ASSUME NEW o \in Shows(store, p) PROVE o \in Shows(long, p)
  BY <1>2, <1>3, <1>6, <1>8 DEF Shows
<1>9. ASSUME NEW o \in Gives(ids, p) PROVE o \in Shows(long, p)
  <2>1. PICK i \in 1 .. m : o \in Nat /\ ids[i] = <<p, o>>
    BY <1>2, <1>9 DEF Gives
  <2>2. ASSUME NEW j \in 1 .. n, Id(store[j]) = ids[i] PROVE o \in Shows(long, p)
    <3>1. long[j] = store[j] /\ <<store[j].p, store[j].o>> = <<p, o>>
      BY <1>3, <2>1, <2>2 DEF Id
    <3> QED BY <1>3, <1>6, <2>1, <3>1 DEF Shows
  <2>3. ASSUME NEW k \in 1 .. c, pos[k] = i PROVE o \in Shows(long, p)
    <3>1. long[n + k] = Row(ids[i], w) /\ ids[i] \in IdSet
      BY <1>3, <2>3
    <3>2. long[n + k].p = p /\ long[n + k].o = o
      BY <1>4, <2>1, <3>1
    <3> QED BY <1>3, <1>5, <2>1, <3>2 DEF Shows
  <2> QED BY <1>3, <2>2, <2>3
<1>10. ASSUME NEW o \in Shows(st, p) PROVE o \in Shows(long, p)
  <2>1. PICK i \in 1 .. n + c - d : o \in Nat /\ st[i].p = p /\ st[i].o = o
    BY <1>3, <1>10 DEF Shows
  <2>2. i + d \in 1 .. n + c /\ st[i] = long[i + d]
    BY <1>3
  <2> QED BY <1>3, <2>1, <2>2 DEF Shows
<1>11. ASSUME Len(st) < Cap, NEW o \in Shows(long, p) PROVE o \in Shows(st, p)
  <2>1. d = 0
    BY <1>3, <1>11, PagesAssumption
  <2>2. \A i \in 1 .. n + c : i \in 1 .. n + c - d /\ st[i] = long[i]
    <3>1. \A i \in 1 .. n + c : i + d = i /\ i \in 1 .. n + c - d
      BY <1>3, <2>1
    <3> QED BY <1>3, <3>1
  <2> QED BY <1>3, <1>11, <2>2 DEF Shows
<1> QED BY <1>7, <1>8, <1>9, <1>10, <1>11

\* Of rows and a page that fall, the page below the rows, the cap drops the
\* highest.
LEMMA PushedFalls ==
  ASSUME NEW store \in Seq(RowSet), NEW ids \in Seq(IdSet), NEW w \in Nat,
         NEW st, NEW long, NEW c, NEW pos, NEW d, Pushing(st, long, store, ids, w, c, pos, d),
         Falls(store), FallsIds(ids),
         \A p : \A a \in Shows(store, p), b \in Gives(ids, p) : b < a
  PROVE  /\ Falls(st)
         /\ \A p : \A o \in Shows(long, p), b \in Shows(st, p) : o <= b => o \in Shows(st, p)
<1>2. PICK n, m : n = Len(store) /\ m = Len(ids)
  OBVIOUS
<1>3. /\ n \in Nat /\ m \in Nat /\ c \in Nat /\ d \in Nat /\ d <= n + c
      /\ Len(long) = n + c /\ Len(st) = n + c - d
      /\ \A i \in 1 .. n : store[i] \in RowSet /\ long[i] = store[i]
      /\ \A i \in 1 .. m : ids[i] \in IdSet
      /\ \A k \in 1 .. c : pos[k] \in 1 .. m /\ long[n + k] = Row(ids[pos[k]], w)
      /\ \A k, l \in 1 .. c : k < l => pos[k] < pos[l]
      /\ \A i \in 1 .. n + c - d : st[i] = long[i + d]
      /\ \A a \in 1 .. n + c : a \in 1 .. n \/ \E k \in 1 .. c : a = n + k
  <2>1. Numbered(st, long, store, ids, w, c, pos, d, Len(store), Len(ids))
    BY PushNumbers
  <2>2. Numbered(st, long, store, ids, w, c, pos, d, n, m)
    BY <1>2, <2>1
  <2> QED BY <2>2 DEF Numbered
<1>4. \A id \in IdSet : Row(id, w).p = id[1] /\ Row(id, w).o = id[2] /\ id = <<id[1], id[2]>> /\ id[2] \in Nat
  BY DEF Row, IdSet
<1>5. \A i \in 1 .. n : store[i].o \in Nat
  BY <1>3 DEF RowSet
<1>6. ASSUME NEW a \in 1 .. n + c, NEW b \in 1 .. n + c, a < b, long[a].p = long[b].p
      PROVE  long[b].o < long[a].o
  <2>1. CASE a \in 1 .. n /\ b \in 1 .. n
    BY <1>2, <1>3, <1>6, <2>1 DEF Falls
  <2>2. ASSUME a \in 1 .. n, NEW k \in 1 .. c, b = n + k PROVE long[b].o < long[a].o
    <3>1. long[b] = Row(ids[pos[k]], w) /\ pos[k] \in 1 .. m /\ ids[pos[k]] \in IdSet /\ long[a] = store[a]
      BY <1>3, <2>2
    <3>2. long[a].o \in Shows(store, long[a].p)
      BY <1>2, <1>5, <2>2, <3>1 DEF Shows
    <3>3. long[b].o \in Gives(ids, long[b].p)
      <4>1. PICK id : id = ids[pos[k]]
        OBVIOUS
      <4>2. long[b].p = id[1] /\ long[b].o = id[2] /\ id = <<id[1], id[2]>> /\ id[2] \in Nat
        BY <1>4, <3>1, <4>1
      <4>3. ids[pos[k]] = <<long[b].p, long[b].o>>
        BY <4>1, <4>2
      <4> QED BY <1>2, <3>1, <4>2, <4>3 DEF Gives
    <3> QED BY <1>6, <3>2, <3>3
  <2>3. ASSUME NEW k \in 1 .. c, NEW l \in 1 .. c, a = n + k, b = n + l PROVE long[b].o < long[a].o
    <3>1. k < l
      BY <1>3, <1>6, <2>3
    <3>2. pos[k] < pos[l] /\ pos[k] \in 1 .. m /\ pos[l] \in 1 .. m
      BY <1>3, <3>1
    <3>3. long[a] = Row(ids[pos[k]], w) /\ long[b] = Row(ids[pos[l]], w)
      BY <1>3, <2>3
    <3>4. ids[pos[k]] \in IdSet /\ ids[pos[l]] \in IdSet
      BY <1>3, <3>2
    <3>5. ids[pos[k]][1] = ids[pos[l]][1]
      BY <1>4, <1>6, <3>3, <3>4
    <3>6. ids[pos[l]][2] < ids[pos[k]][2]
      BY <1>2, <3>2, <3>5 DEF FallsIds
    <3> QED BY <1>4, <3>3, <3>4, <3>6
  <2>4. ~(b \in 1 .. n /\ \E k \in 1 .. c : a = n + k)
    BY <1>3, <1>6
  <2> QED BY <1>3, <2>1, <2>2, <2>3, <2>4
<1>7. Falls(st)
  <2> SUFFICES ASSUME NEW i \in 1 .. n + c - d, NEW j \in 1 .. n + c - d, i < j, st[i].p = st[j].p
               PROVE  st[j].o < st[i].o
    BY <1>3 DEF Falls
  <2>1. i + d \in 1 .. n + c /\ j + d \in 1 .. n + c /\ i + d < j + d
    BY <1>3
  <2> QED BY <1>3, <1>6, <2>1
<1>8. ASSUME NEW p, NEW o \in Shows(long, p), NEW b \in Shows(st, p), o <= b PROVE o \in Shows(st, p)
  <2>1. PICK j \in 1 .. n + c - d : b \in Nat /\ st[j].p = p /\ st[j].o = b
    BY <1>3, <1>8 DEF Shows
  <2>2. PICK a \in 1 .. n + c : o \in Nat /\ long[a].p = p /\ long[a].o = o
    BY <1>3, <1>8 DEF Shows
  <2>3. j + d \in 1 .. n + c /\ st[j] = long[j + d]
    BY <1>3
  <2>4. ~(a < j + d)
    <3> SUFFICES ASSUME a < j + d PROVE FALSE
      OBVIOUS
    <3>1. long[j + d].o < long[a].o
      BY <1>6, <2>1, <2>2, <2>3
    <3> QED BY <1>8, <2>1, <2>2, <2>3, <3>1
  <2>5. a - d \in 1 .. n + c - d /\ (a - d) + d = a
    BY <1>3, <2>4
  <2>6. st[a - d] = long[a]
    BY <1>3, <2>5
  <2> QED BY <1>3, <2>2, <2>5, <2>6 DEF Shows
<1> QED BY <1>7, <1>8

-----------------------------------------------------------------------------
(***************************************************************************)
(* Reads                                                                   *)
(***************************************************************************)
LogOK ==
  /\ low \in [Partitions -> Nat] /\ high \in [Partitions -> Nat]
  /\ \A p \in Partitions : high[p] <= Len(Log[p]) /\ Whole(p, high[p])

LEMMA Entries ==
  ASSUME LogOK, NEW p \in Partitions
  PROVE  /\ Len(Log[p]) \in Nat /\ DOMAIN Log[p] = 1 .. Len(Log[p])
         /\ \A o \in Nat : o < Len(Log[p]) => o + 1 \in 1 .. Len(Log[p]) /\ Kind(p, o) \in Kinds /\ At(p, o) \in Nat
<1>1. PICK s, n : s = Log[p] /\ n = Len(s)
  OBVIOUS
<1>2. s \in Seq([kind : Kinds, at : Nat])
  BY <1>1, PagesAssumption
<1>3. n \in Nat /\ DOMAIN s = 1 .. n /\ \A i \in 1 .. n : s[i] \in [kind : Kinds, at : Nat]
  BY <1>1, <1>2, LenProperties, ElementOfSeq
<1>4. ASSUME NEW o \in Nat, o < n PROVE o + 1 \in 1 .. n /\ s[o + 1].kind \in Kinds /\ s[o + 1].at \in Nat
  BY <1>3, <1>4
<1> QED BY <1>1, <1>3, <1>4 DEF Kind, At

\* What a read of a partition may deliver.
LEMMA InTheLog ==
  ASSUME LogOK, NEW q, NEW p \in Partitions
  PROVE  /\ \A o \in InReach(p, q) : o \in Nat /\ low[p] <= o /\ o < high[p] /\ Kind(p, o) # "rest"
         /\ IsFiniteSet(InReach(p, q))
<1>1. InReach(p, q) \subseteq Readable(p, q.committed)
  BY DEF InReach, Ahead, Behind
<1>2. low[p] \in Nat /\ high[p] \in Nat
  BY DEF LogOK
<1>3. \A o \in Readable(p, q.committed) : o \in Nat /\ low[p] <= o /\ o < high[p] /\ Kind(p, o) # "rest"
  BY <1>2 DEF Readable
<1>4. IsFiniteSet(low[p] .. high[p] - 1)
  BY <1>2, FS_Interval
<1>5. Readable(p, q.committed) \in SUBSET (low[p] .. high[p] - 1)
  BY DEF Readable
<1>6. IsFiniteSet(Readable(p, q.committed))
  BY <1>4, <1>5, FS_Subset
<1>7. IsFiniteSet(InReach(p, q))
  BY <1>1, <1>6, FS_Subset
<1> QED BY <1>1, <1>3, <1>7

\* A read of each partition up, or down, to where it stops.
IsRead(q, read, stop) ==
  /\ DOMAIN read = q.partitions
  /\ \A p \in q.partitions : stop[p] \in Nat
  /\ \A p \in q.partitions :
       read[p] = {o \in InReach(p, q) : IF q.desc THEN o >= stop[p] ELSE o < stop[p]}
  /\ \/ Total(read) \in Limit .. IF q.desc THEN Limit + 1 ELSE Limit
     \/ Total(read) < Limit /\ \A p \in q.partitions : read[p] = InReach(p, q)

LEMMA ReadsAre ==
  ASSUME LogOK, NEW q, q.partitions \subseteq Partitions, NEW read \in Reads(q)
  PROVE  \E stop : IsRead(q, read, stop)
<1> DEFINE ends == {f \in [q.partitions -> 0 .. MaxOffset] : \A p \in q.partitions : f[p] \in low[p] .. high[p]}
           part(p, stop) == {o \in InReach(p, q) : IF q.desc THEN o >= stop ELSE o < stop}
<1>1. PICK stop \in ends : read = [p \in q.partitions |-> part(p, stop[p])]
  BY DEF Reads
<1>2. \A p \in q.partitions : stop[p] \in Nat
  <2> SUFFICES ASSUME NEW p \in q.partitions PROVE stop[p] \in Nat
    OBVIOUS
  <2>1. stop[p] \in low[p] .. high[p] /\ low[p] \in Nat /\ high[p] \in Nat
    BY <1>1 DEF LogOK
  <2> QED BY <2>1
<1>3. \/ Total(read) \in Limit .. IF q.desc THEN Limit + 1 ELSE Limit
      \/ Total(read) < Limit /\ \A p \in q.partitions : read[p] = InReach(p, q)
  BY DEF Reads
<1> QED BY <1>1, <1>2, <1>3 DEF IsRead

LEMMA IdsAre ==
  ASSUME LogOK, NEW q, q.partitions \subseteq Partitions, NEW read, NEW stop, IsRead(q, read, stop)
  PROVE  /\ IsFiniteSet(Ids(read)) /\ Ids(read) \subseteq IdSet
         /\ \A id \in Ids(read) : id[1] \in q.partitions /\ id[2] \in read[id[1]] /\ id[2] < high[id[1]]
                                  /\ id = <<id[1], id[2]>>
         /\ \A p \in q.partitions : \A o \in read[p] : <<p, o>> \in Ids(read)
<1>1. DOMAIN read = q.partitions /\ \A p \in q.partitions : read[p] \subseteq InReach(p, q)
  BY DEF IsRead
<1>2. \A p \in q.partitions : \A o \in read[p] : o \in Nat /\ o < high[p]
  BY <1>1, InTheLog
<1>3. \A id \in Ids(read) : \E p \in q.partitions : id \in {p} \X read[p]
  BY <1>1 DEF Ids
<1>4. \A p \in q.partitions : \A o \in read[p] : <<p, o>> \in Ids(read)
  BY <1>1 DEF Ids
<1>5. \A id \in Ids(read) : id[1] \in q.partitions /\ id[2] \in read[id[1]] /\ id[2] < high[id[1]]
                            /\ id = <<id[1], id[2]>> /\ id \in IdSet
  BY <1>2, <1>3 DEF IdSet
<1>6. IsFiniteSet(Ids(read))
  <2>1. IsFiniteSet(q.partitions)
    BY PagesAssumption, FS_Subset
  <2> DEFINE F == {{p} \X read[p] : p \in q.partitions}
             f == [p \in q.partitions |-> {p} \X read[p]]
  <2>2. f \in Surjection(q.partitions, F)
    BY DEF Surjection
  <2>3. IsFiniteSet(F)
    <3> HIDE DEF f, F
    <3> QED BY <2>1, <2>2, FS_Surjection
  <2>4. ASSUME NEW p \in q.partitions PROVE IsFiniteSet({p} \X read[p])
    <3>1. IsFiniteSet(read[p])
      BY <1>1, InTheLog, FS_Subset
    <3>2. IsFiniteSet({p})
      BY FS_Singleton
    <3> QED BY <3>1, <3>2, FS_Product
  <2>5. \A T \in F : IsFiniteSet(T)
    BY <2>4
  <2>6. Ids(read) = UNION F
    BY <1>1 DEF Ids
  <2> HIDE DEF F
  <2> QED BY <2>3, <2>5, <2>6, FS_UNION
<1> QED BY <1>4, <1>5, <1>6

(***************************************************************************)
(* Sorting                                                                 *)
(***************************************************************************)
LEMMA BeforeIs ==
  ASSUME LogOK, NEW a \in IdSet, NEW b \in IdSet, a[2] < high[a[1]], b[2] < high[b[1]], Before(a, b)
  PROVE  /\ a # b
         /\ a[1] = b[1] /\ InOrder(a[1]) /\ Kind(a[1], a[2]) # "bad" /\ Kind(b[1], b[2]) # "bad" => a[2] < b[2]
<1>1. a[1] \in Partitions /\ b[1] \in Partitions /\ a[2] \in Nat /\ b[2] \in Nat
  BY DEF IdSet
<1>2. Partitions \subseteq Nat
  BY PagesAssumption
<1>10. a[1] \in Int /\ a[2] \in Int
  <2>1. \A k \in Partitions : k \in Int
    BY <1>2
  <2>2. \A k \in Nat : k \in Int
    OBVIOUS
  <2> QED BY <1>1, <2>1, <2>2
<1>3. /\ Len(Log[a[1]]) \in Nat /\ DOMAIN Log[a[1]] = 1 .. Len(Log[a[1]])
      /\ a[2] + 1 \in 1 .. Len(Log[a[1]]) /\ At(a[1], a[2]) \in Nat
  <2>1. Len(Log[a[1]]) \in Nat /\ high[a[1]] \in Nat /\ high[a[1]] <= Len(Log[a[1]])
    BY <1>1, Entries DEF LogOK
  <2>2. a[2] < Len(Log[a[1]])
    BY <1>1, <2>1
  <2> QED BY <1>1, <2>2, Entries
<1>4. /\ Len(Log[b[1]]) \in Nat
      /\ b[2] + 1 \in 1 .. Len(Log[b[1]]) /\ At(b[1], b[2]) \in Nat
  <2>1. Len(Log[b[1]]) \in Nat /\ high[b[1]] \in Nat /\ high[b[1]] <= Len(Log[b[1]])
    BY <1>1, Entries DEF LogOK
  <2>2. b[2] < Len(Log[b[1]])
    BY <1>1, <2>1
  <2> QED BY <1>1, <2>2, Entries
<1>5. PICK x, y : x = SortKey(a) /\ y = SortKey(b)
  OBVIOUS
<1>6. x[1] < y[1] \/ (x[1] = y[1] /\ x[2] < y[2]) \/ (x[1] = y[1] /\ x[2] = y[2] /\ x[3] < y[3])
  BY <1>5 DEF Before
<1>7. x[1] \in Int /\ y[1] \in Int /\ x[2] = a[2] /\ y[2] = b[2] /\ x[3] = a[1] /\ y[3] = b[1]
  BY <1>1, <1>2, <1>3, <1>4, <1>5 DEF SortKey
<1>8. a # b
  <2> SUFFICES ASSUME a = b PROVE FALSE
    OBVIOUS
  <2>1. x = y
    BY <1>5
  <2>2. x[1] \in Int /\ x[2] \in Int /\ x[3] \in Int
    <3>1. x[1] \in Int /\ x[2] = a[2] /\ x[3] = a[1]
      BY <1>7
    <3> QED BY <1>10, <3>1
  <2>3. x[1] < x[1] \/ x[2] < x[2] \/ x[3] < x[3]
    BY <1>6, <2>1
  <2> QED BY <2>2, <2>3
<1>9. ASSUME a[1] = b[1], InOrder(a[1]), Kind(a[1], a[2]) # "bad", Kind(b[1], b[2]) # "bad"
      PROVE  a[2] < b[2]
  <2>1. x[1] = At(a[1], a[2]) /\ y[1] = At(a[1], b[2])
    BY <1>5, <1>9 DEF SortKey
  <2> SUFFICES ASSUME ~(a[2] < b[2]) PROVE FALSE
    OBVIOUS
  <2>2. a[2] # b[2]
    <3> SUFFICES ASSUME a[2] = b[2] PROVE FALSE
      OBVIOUS
    <3>1. a = <<a[1], a[2]>> /\ b = <<b[1], b[2]>>
      BY DEF IdSet
    <3>2. a = b
      BY <1>9, <3>1
    <3> QED BY <1>8, <3>2
  <2>3. b[2] < a[2] /\ b[2] + 1 < a[2] + 1
    BY <1>1, <2>2
  <2>4. b[2] + 1 \in DOMAIN Log[a[1]] /\ a[2] + 1 \in DOMAIN Log[a[1]]
    BY <1>3, <1>4, <1>9
  <2>5. At(a[1], b[2]) <= At(a[1], a[2])
    BY <1>9, <2>3, <2>4 DEF InOrder, At
  <2> QED BY <1>1, <1>3, <1>4, <1>6, <1>7, <1>9, <2>1, <2>3, <2>5
<1> QED BY <1>8, <1>9

\* The ids of a finite set, each once.
LEMMA SortedIs ==
  ASSUME LogOK, NEW q, NEW ids \in SUBSET IdSet, IsFiniteSet(ids), \A id \in ids : id[2] < high[id[1]],
         NEW all \in Sorted(q, ids)
  PROVE  /\ all \in Seq(IdSet) /\ Len(all) = Cardinality(ids) /\ Len(all) \in Nat
         /\ \A i \in 1 .. Len(all) : all[i] \in ids
         /\ \A id \in ids : \E i \in 1 .. Len(all) : all[i] = id
         /\ q.desc /\ (\A id \in ids : InOrder(id[1]) /\ Kind(id[1], id[2]) # "bad") => FallsIds(all)
<1>1. PICK n : n = Cardinality(ids)
  OBVIOUS
<1>2. n \in Nat
  BY <1>1, FS_CardinalityType
<1>3. /\ all \in [1 .. n -> ids]
      /\ \A i, j \in 1 .. n : i < j => IF q.desc THEN Before(all[j], all[i]) ELSE Before(all[i], all[j])
  BY <1>1 DEF Sorted
<1>4. all \in Seq(IdSet) /\ Len(all) = n
  BY <1>2, <1>3
<1>5. ASSUME NEW i \in 1 .. n, NEW j \in 1 .. n, i < j PROVE all[i] # all[j]
  <2>1. Before(all[j], all[i]) \/ Before(all[i], all[j])
    BY <1>3, <1>5
  <2>2. all[i] \in IdSet /\ all[j] \in IdSet /\ all[i][2] < high[all[i][1]] /\ all[j][2] < high[all[j][1]]
    BY <1>3
  <2> QED BY <2>1, <2>2, BeforeIs
<1>6. all \in Injection(1 .. n, ids)
  <2>1. \A i, j \in 1 .. n : i # j => i < j \/ j < i
    BY <1>2
  <2>2. \A i, j \in 1 .. n : all[i] = all[j] => i = j
    BY <1>5, <2>1
  <2> QED BY <1>3, <2>2 DEF Injection, IsInjective
<1>7. all \in Surjection(1 .. n, ids)
  <2>1. IsFiniteSet(1 .. n) /\ Cardinality(1 .. n) = n
    BY <1>2, FS_Interval
  <2> QED BY <1>1, <1>6, <2>1, FS_Injection
<1>8. \A id \in ids : \E i \in 1 .. n : all[i] = id
  BY <1>7 DEF Surjection
<1>9. ASSUME q.desc, \A id \in ids : InOrder(id[1]) /\ Kind(id[1], id[2]) # "bad"
      PROVE  FallsIds(all)
  <2> SUFFICES ASSUME NEW i \in 1 .. n, NEW j \in 1 .. n, i < j, all[i][1] = all[j][1] PROVE all[j][2] < all[i][2]
    BY <1>4 DEF FallsIds
  <2>1. Before(all[j], all[i]) /\ all[i] \in ids /\ all[j] \in ids
    BY <1>3, <1>9
  <2>2. all[i] \in IdSet /\ all[j] \in IdSet /\ all[i][2] < high[all[i][1]] /\ all[j][2] < high[all[j][1]]
    BY <1>3
  <2>3. all[j][1] = all[i][1]
    OBVIOUS
  <2>4. /\ InOrder(all[j][1]) /\ Kind(all[j][1], all[j][2]) # "bad" /\ Kind(all[i][1], all[i][2]) # "bad"
    BY <1>9, <2>1
  <2> QED BY <2>1, <2>2, <2>3, <2>4, BeforeIs
<1> QED BY <1>1, <1>2, <1>3, <1>4, <1>8, <1>9

(***************************************************************************)
(* Pages                                                                   *)
(***************************************************************************)

\* What a window accepts is in reach of a tail below its anchor.
LEMMA Behindward ==
  ASSUME LogOK, NEW q, q.desc, NEW p \in Partitions, NEW o
  PROVE  /\ o \in Nat /\ Accepts(q, p, o) /\ o <= q.from => o \in InReach(p, q)
         /\ o \in InReach(p, q) => o <= q.from /\ Kind(p, o) # "bad"
<1>1. InReach(p, q) = {x \in Readable(p, q.committed) : x <= q.from /\ Kind(p, x) # "bad"}
  BY DEF InReach, Behind
<1>2. ASSUME o \in Nat, Accepts(q, p, o) PROVE o \in Readable(p, q.committed) /\ Kind(p, o) # "bad"
  <2>1. Kind(p, o) = "hit" /\ low[p] <= o /\ o < high[p]
    BY <1>2 DEF Accepts
  <2>2. low[p] \in Nat /\ high[p] \in Nat
    BY DEF LogOK
  <2>3. o \in low[p] .. high[p] - 1
    BY <1>2, <2>1, <2>2
  <2> QED BY <2>1, <2>3 DEF Readable
<1> QED BY <1>1, <1>2

\* What a window accepts is in reach of a scan above its start, and above
\* whatever it delivers.  At most one record it delivers is from below its start.
LEMMA AheadOf ==
  ASSUME LogOK, NEW q, ~q.desc, q.from \in Int, NEW p \in Partitions
  PROVE  /\ \A o \in Nat : Accepts(q, p, o) /\ (o >= q.from \/ \E a \in InReach(p, q) : a <= o)
                               => o \in InReach(p, q)
         /\ \A a, o \in InReach(p, q) : a < q.from /\ o < q.from => a = o
         /\ \A a \in InReach(p, q) : a < q.from => a = q.from - 1 \/ a = high[p] - 1
<1>1. low[p] \in Nat /\ high[p] \in Nat
  BY DEF LogOK
<1>2. \A o \in Nat : Accepts(q, p, o) => o \in Readable(p, q.committed)
  <2> SUFFICES ASSUME NEW o \in Nat, Accepts(q, p, o) PROVE o \in Readable(p, q.committed)
    OBVIOUS
  <2>1. Kind(p, o) \in {"hit", "bad"} /\ low[p] <= o /\ o < high[p]
    BY DEF Accepts
  <2>2. o \in low[p] .. high[p] - 1
    BY <1>1, <2>1
  <2> QED BY <2>1, <2>2 DEF Readable
<1>3. \A o \in Readable(p, q.committed) : o \in Nat /\ o < high[p]
  BY <1>1 DEF Readable
<1> DEFINE base == IF q.from < Len(Log[p]) /\ Kind(p, q.from) = "rest" THEN q.from - 1 ELSE q.from
           start == IF base < high[p] THEN base ELSE high[p] - 1
<1>4. InReach(p, q) = {o \in Readable(p, q.committed) : o >= start}
  BY DEF InReach, Ahead
<1>5. base \in {q.from - 1, q.from}
  OBVIOUS
<1> HIDE DEF base
<1>6. start \in Int /\ start <= q.from
  BY <1>1, <1>5
<1>7. \A o \in Nat : o < high[p] /\ o >= start /\ o < q.from => o = start /\ (o = q.from - 1 \/ o = high[p] - 1)
  BY <1>1, <1>5
<1> HIDE DEF start
<1>8. \A o \in InReach(p, q) : o \in Nat /\ o < high[p] /\ o >= start
  BY <1>3, <1>4
<1>9. \A a, o \in InReach(p, q) : a < q.from /\ o < q.from => a = o
  BY <1>7, <1>8
<1>10. \A a \in InReach(p, q) : a < q.from => a = q.from - 1 \/ a = high[p] - 1
  BY <1>7, <1>8
<1>11. ASSUME NEW o \in Nat, Accepts(q, p, o), o >= q.from \/ \E a \in InReach(p, q) : a <= o
       PROVE  o \in InReach(p, q)
  <2>1. o >= start
    BY <1>6, <1>8, <1>11
  <2> QED BY <1>2, <1>4, <1>11, <2>1
<1> QED BY <1>9, <1>10, <1>11

LEMMA Aheadward ==
  ASSUME LogOK, NEW q, ~q.desc, q.from \in Int, NEW p \in Partitions, NEW o
  PROVE  /\ o \in Nat /\ Accepts(q, p, o) /\ o >= q.from => o \in InReach(p, q)
         /\ \A a \in InReach(p, q) : o \in Nat /\ Accepts(q, p, o) /\ a <= o => o \in InReach(p, q)
         /\ \A a \in InReach(p, q) : o \in InReach(p, q) /\ a < q.from /\ o < q.from => a = o
         /\ o \in InReach(p, q) /\ o < q.from => o = q.from - 1 \/ o = high[p] - 1
<1>1. \A x \in Nat : Accepts(q, p, x) /\ (x >= q.from \/ \E a \in InReach(p, q) : a <= x) => x \in InReach(p, q)
  BY AheadOf
<1>2. \A a, x \in InReach(p, q) : a < q.from /\ x < q.from => a = x
  BY AheadOf
<1>3. \A a \in InReach(p, q) : a < q.from => a = q.from - 1 \/ a = high[p] - 1
  BY AheadOf
<1> QED BY <1>1, <1>2, <1>3

\* The ids of a page: the first of those found.
LEMMA CutIs ==
  ASSUME NEW all \in Seq(IdSet)
  PROVE  /\ Cut(all) \in Seq(IdSet) /\ Len(Cut(all)) \in Nat /\ Len(Cut(all)) <= Len(all)
         /\ \A i \in 1 .. Len(Cut(all)) : Cut(all)[i] = all[i]
         /\ Len(all) <= Limit => Cut(all) = all
         /\ Len(all) > Limit => Len(Cut(all)) = Limit
<1>1. PICK n, c : n = Len(all) /\ c = Cut(all)
  OBVIOUS
<1>2. n \in Nat /\ Limit \in Nat /\ Limit # 0 /\ \A i \in 1 .. n : all[i] \in IdSet
  BY <1>1, LenProperties, ElementOfSeq, PagesAssumption
<1>3. CASE n > Limit
  <2>1. c = SubSeq(all, 1, Limit)
    BY <1>1, <1>3 DEF Cut
  <2>2. \A i \in 1 .. Limit : all[i] \in IdSet
    BY <1>2, <1>3
  <2>3. /\ SubSeq(all, 1, Limit) \in Seq(IdSet)
        /\ Len(SubSeq(all, 1, Limit)) = IF 1 <= Limit THEN Limit - 1 + 1 ELSE 0
        /\ \A i \in 1 .. Limit - 1 + 1 : SubSeq(all, 1, Limit)[i] = all[1 + i - 1]
    BY <1>2, <2>2, SubSeqProperties
  <2>4. c \in Seq(IdSet) /\ Len(c) = Limit
    BY <1>2, <2>1, <2>3
  <2>5. \A i \in 1 .. Limit : c[i] = all[i]
    <3>1. \A i \in 1 .. Limit : i \in 1 .. Limit - 1 + 1 /\ 1 + i - 1 = i
      BY <1>2
    <3> QED BY <2>1, <2>3, <3>1
  <2> QED BY <1>1, <1>2, <1>3, <2>4, <2>5
<1>4. CASE ~(n > Limit)
  BY <1>1, <1>2, <1>4 DEF Cut
<1> QED BY <1>3, <1>4

\* A page's matches, in order, and the rows it is made of.
Made(q, read, stop, all) ==
  /\ q.partitions \subseteq Partitions /\ q.desc \in BOOLEAN /\ q.from \in Int
  /\ IsRead(q, read, stop)
  /\ all \in Sorted(q, Found(q, read))

LEMMA FoundIs ==
  ASSUME LogOK, NEW q, NEW read, NEW stop, NEW all, Made(q, read, stop, all)
  PROVE  /\ IsFiniteSet(Found(q, read)) /\ Found(q, read) \subseteq IdSet
         /\ \A id \in Found(q, read) : id[1] \in q.partitions /\ id[2] \in read[id[1]] /\ id[2] < high[id[1]]
         /\ all \in Seq(IdSet) /\ Len(all) \in Nat /\ Len(all) = Cardinality(Found(q, read))
         /\ \A i \in 1 .. Len(all) : all[i] \in Found(q, read)
         /\ \A id \in Found(q, read) : \E i \in 1 .. Len(all) : all[i] = id
<1>1. /\ IsFiniteSet(Ids(read)) /\ Ids(read) \subseteq IdSet
      /\ \A id \in Ids(read) : id[1] \in q.partitions /\ id[2] \in read[id[1]] /\ id[2] < high[id[1]]
  BY IdsAre DEF Made
<1>2. Found(q, read) \subseteq Ids(read)
  BY DEF Found, Seen
<1>3. PICK F : F = Found(q, read)
  OBVIOUS
<1>4. /\ IsFiniteSet(F) /\ F \in SUBSET IdSet
      /\ \A id \in F : id[1] \in q.partitions /\ id[2] \in read[id[1]] /\ id[2] < high[id[1]]
  BY <1>1, <1>2, <1>3, FS_Subset
<1>5. all \in Sorted(q, F)
  BY <1>3 DEF Made
<1>6. /\ all \in Seq(IdSet) /\ Len(all) \in Nat /\ Len(all) = Cardinality(F)
      /\ \A i \in 1 .. Len(all) : all[i] \in F
      /\ \A id \in F : \E i \in 1 .. Len(all) : all[i] = id
  BY <1>4, <1>5, SortedIs
<1> QED BY <1>3, <1>4, <1>6

\* What it gives: only what was read; if it is not cut, all that was found.
LEMMA PageGives ==
  ASSUME LogOK, NEW q, NEW read, NEW stop, NEW all, Made(q, read, stop, all), NEW p
  PROVE  /\ \A o \in Gives(Cut(all), p) : p \in q.partitions /\ o \in read[p] /\ o < high[p]
                                          /\ <<p, o>> \in Found(q, read)
         /\ Len(all) <= Limit => \A o \in Nat : <<p, o>> \in Found(q, read) => o \in Gives(Cut(all), p)
<1>1. /\ \A id \in Found(q, read) : id[1] \in q.partitions /\ id[2] \in read[id[1]] /\ id[2] < high[id[1]]
      /\ all \in Seq(IdSet) /\ Len(all) \in Nat
      /\ \A i \in 1 .. Len(all) : all[i] \in Found(q, read)
      /\ \A id \in Found(q, read) : \E i \in 1 .. Len(all) : all[i] = id
  BY FoundIs
<1>2. PICK n, c, m : n = Len(all) /\ c = Cut(all) /\ m = Len(c)
  OBVIOUS
<1>3. n \in Nat /\ m \in Nat /\ m <= n /\ (\A i \in 1 .. m : c[i] = all[i]) /\ (n <= Limit => c = all)
  BY <1>1, <1>2, CutIs
<1>4. ASSUME NEW o \in Gives(c, p)
      PROVE  p \in q.partitions /\ o \in read[p] /\ o < high[p] /\ <<p, o>> \in Found(q, read)
  <2>1. PICK i \in 1 .. m : o \in Nat /\ c[i] = <<p, o>>
    BY <1>2, <1>4 DEF Gives
  <2>2. i \in 1 .. n
    BY <1>3
  <2>3. <<p, o>> \in Found(q, read)
    BY <1>1, <1>2, <1>3, <2>1, <2>2
  <2>4. <<p, o>>[1] = p /\ <<p, o>>[2] = o
    OBVIOUS
  <2> QED BY <1>1, <2>3, <2>4
<1>5. ASSUME n <= Limit, NEW o \in Nat, <<p, o>> \in Found(q, read) PROVE o \in Gives(c, p)
  <2>1. PICK i \in 1 .. n : all[i] = <<p, o>>
    BY <1>1, <1>2, <1>5
  <2>2. c = all /\ n = Len(c)
    BY <1>2, <1>3, <1>5
  <2> QED BY <2>1, <2>2 DEF Gives
<1> QED BY <1>2, <1>4, <1>5

LEMMA FoundHas ==
  ASSUME LogOK, NEW q, NEW read, NEW stop, NEW all, Made(q, read, stop, all),
         NEW p \in q.partitions, NEW o \in read[p], Accepts(q, p, o), q.desc \/ o >= q.from \/ Kind(p, o) = "bad"
  PROVE  <<p, o>> \in Found(q, read)
<1>1. <<p, o>> \in Ids(read)
  BY IdsAre DEF Made
<1>2. <<p, o>>[1] = p /\ <<p, o>>[2] = o
  OBVIOUS
<1>3. Kind(p, o) # "miss"
  BY DEF Accepts
<1> QED BY <1>1, <1>2, <1>3 DEF Found, Seen, Matches

\* A backward page falls, and gives what is accepted between what it gives and
\* its anchor.
LEMMA DescGives ==
  ASSUME LogOK, NEW q, NEW read, NEW stop, NEW all, Made(q, read, stop, all), q.desc,
         \A p \in q.partitions : InOrder(p)
  PROVE  /\ FallsIds(Cut(all))
         /\ \A p : \A a \in Gives(Cut(all), p) :
              /\ a <= q.from
              /\ \A o \in Nat : a <= o /\ o <= q.from /\ Accepts(q, p, o) => o \in Gives(Cut(all), p)
<1>1. /\ IsFiniteSet(Found(q, read)) /\ Found(q, read) \subseteq IdSet
      /\ \A id \in Found(q, read) : id[1] \in q.partitions /\ id[2] \in read[id[1]] /\ id[2] < high[id[1]]
      /\ all \in Seq(IdSet) /\ Len(all) \in Nat
      /\ \A i \in 1 .. Len(all) : all[i] \in Found(q, read)
      /\ \A id \in Found(q, read) : \E i \in 1 .. Len(all) : all[i] = id
  BY FoundIs
<1>2. PICK n, c, m : n = Len(all) /\ c = Cut(all) /\ m = Len(c)
  OBVIOUS
<1>3. n \in Nat /\ m \in Nat /\ m <= n /\ \A i \in 1 .. m : c[i] = all[i]
  BY <1>1, <1>2, CutIs
<1>4. q.desc \in BOOLEAN /\ q.from \in Int /\ q.partitions \subseteq Partitions
  BY DEF Made
<1>5. ASSUME NEW p \in q.partitions PROVE \A o \in read[p] : o \in InReach(p, q) /\ o >= stop[p] /\ stop[p] \in Nat
  BY DEF Made, IsRead
<1>6. \A p \in q.partitions : \A o \in read[p] : Kind(p, o) # "bad" /\ o <= q.from
  <2> SUFFICES ASSUME NEW p \in q.partitions, NEW o \in read[p] PROVE Kind(p, o) # "bad" /\ o <= q.from
    OBVIOUS
  <2>1. p \in Partitions /\ o \in InReach(p, q)
    BY <1>4, <1>5
  <2> QED BY <1>4, <2>1, Behindward
<1>7. FallsIds(all)
  <2>1. \A id \in Found(q, read) : InOrder(id[1]) /\ Kind(id[1], id[2]) # "bad"
    BY <1>1, <1>6
  <2>2. PICK F : F = Found(q, read)
    OBVIOUS
  <2>3. all \in Sorted(q, F) /\ F \in SUBSET IdSet /\ IsFiniteSet(F)
    BY <1>1, <2>2 DEF Made
  <2>4. (\A id \in F : id[2] < high[id[1]]) /\ \A id \in F : InOrder(id[1]) /\ Kind(id[1], id[2]) # "bad"
    BY <1>1, <2>1, <2>2
  <2> QED BY <2>3, <2>4, SortedIs
<1>8. FallsIds(c)
  <2>1. \A i \in 1 .. m : i \in 1 .. n
    BY <1>3
  <2> QED BY <1>2, <1>3, <1>7, <2>1 DEF FallsIds
<1>9. ASSUME NEW p, NEW a \in Gives(c, p)
      PROVE  /\ a <= q.from
             /\ \A o \in Nat : a <= o /\ o <= q.from /\ Accepts(q, p, o) => o \in Gives(c, p)
  <2>1. p \in q.partitions /\ a \in read[p]
    BY <1>2, <1>9, PageGives
  <2>2. a <= q.from
    BY <1>6, <2>1
  <2>3. ASSUME NEW o \in Nat, a <= o, o <= q.from, Accepts(q, p, o) PROVE o \in Gives(c, p)
    <3>1. o \in InReach(p, q)
      <4>1. p \in Partitions
        BY <1>4, <2>1
      <4> QED BY <1>4, <2>3, <4>1, Behindward
    <3>2. a \in Nat /\ a >= stop[p] /\ stop[p] \in Nat
      BY <1>5, <1>9, <2>1 DEF Gives
    <3>3. o >= stop[p]
      BY <2>3, <3>2
    <3>4. o \in read[p]
      BY <2>1, <3>1, <3>3 DEF Made, IsRead
    <3>5. <<p, o>> \in Found(q, read)
      BY <2>1, <2>3, <3>4, FoundHas
    <3>6. PICK k \in 1 .. n : all[k] = <<p, o>>
      BY <1>1, <1>2, <3>5
    <3>7. PICK i \in 1 .. m : c[i] = <<p, a>>
      BY <1>2, <1>9 DEF Gives
    <3>8. all[i] = <<p, a>> /\ i \in 1 .. n
      BY <1>3, <3>7
    <3>9. CASE o = a
      BY <1>9, <3>9
    <3>10. CASE o # a
      <4>1. a < o
        BY <2>3, <3>2, <3>10
      <4>2. ~(i < k)
        <5> SUFFICES ASSUME i < k PROVE FALSE
          OBVIOUS
        <5>1. all[i][1] = p /\ all[k][1] = p /\ all[i][2] = a /\ all[k][2] = o
          BY <3>6, <3>8
        <5>2. all[k][2] < all[i][2]
          BY <1>2, <1>7, <3>6, <3>8, <5>1 DEF FallsIds
        <5> QED BY <2>3, <3>2, <4>1, <5>1, <5>2
      <4>3. k \in 1 .. m
        BY <1>3, <3>6, <3>7, <4>2
      <4>4. c[k] = <<p, o>>
        BY <1>3, <3>6, <4>3
      <4> QED BY <1>2, <2>3, <4>3, <4>4 DEF Gives
    <3> QED BY <3>9, <3>10
  <2> QED BY <2>2, <2>3
<1> QED BY <1>2, <1>8, <1>9

\* A forward page is not cut, and gives what is accepted from what it gives up
\* to where its read stopped.
LEMMA AscGives ==
  ASSUME LogOK, NEW q, NEW read, NEW stop, NEW all, Made(q, read, stop, all), ~q.desc
  PROVE  /\ Len(all) <= Limit
         /\ \A p : \A a \in Gives(Cut(all), p) : \A o \in read[p] :
              a <= o /\ Accepts(q, p, o) => o \in Gives(Cut(all), p)
         /\ \A p : \A a, b \in Gives(Cut(all), p) : \A o \in Nat :
              a <= o /\ o <= b /\ Accepts(q, p, o) => o \in Gives(Cut(all), p)
<1>1. Len(all) <= Limit
  <2>1. Found(q, read) \subseteq Ids(read) /\ IsFiniteSet(Ids(read))
    BY IdsAre DEF Found, Seen, Made
  <2>2. Cardinality(Found(q, read)) <= Cardinality(Ids(read))
    BY <2>1, FS_Subset
  <2>3. Cardinality(Ids(read)) <= Limit
    <3>1. Total(read) \in Limit .. Limit \/ Total(read) < Limit
      BY DEF Made, IsRead
    <3>2. Limit \in Nat
      BY PagesAssumption
    <3>3. PICK k : k = Cardinality(Ids(read)) /\ k = Total(read)
      BY DEF Total
    <3>4. k \in Nat
      BY <2>1, <3>3, FS_CardinalityType
    <3>5. k <= Limit
      BY <3>1, <3>2, <3>3, <3>4
    <3> QED BY <3>3, <3>5
  <2>4. Cardinality(Ids(read)) \in Nat /\ Len(all) = Cardinality(Found(q, read)) /\ Len(all) \in Nat /\ Limit \in Nat
    BY <2>1, FS_CardinalityType, FoundIs, PagesAssumption
  <2> QED BY <2>2, <2>3, <2>4
<1>2. PICK c : c = Cut(all)
  OBVIOUS
<1>3. q.desc \in BOOLEAN /\ q.from \in Int /\ q.partitions \subseteq Partitions
  BY DEF Made
<1>4. \A p \in q.partitions : \A o \in read[p] : o \in InReach(p, q) /\ o < stop[p] /\ stop[p] \in Nat /\ o \in Nat
  <2> SUFFICES ASSUME NEW p \in q.partitions, NEW o \in read[p]
               PROVE  o \in InReach(p, q) /\ o < stop[p] /\ stop[p] \in Nat /\ o \in Nat
    OBVIOUS
  <2>1. o \in InReach(p, q) /\ o < stop[p] /\ stop[p] \in Nat
    BY DEF Made, IsRead
  <2> QED BY <1>3, <2>1, InTheLog
<1>5. ASSUME NEW p, NEW a \in Gives(c, p), NEW o \in read[p], a <= o, Accepts(q, p, o)
      PROVE  o \in Gives(c, p)
  <2>1. p \in q.partitions /\ a \in read[p] /\ a \in Nat
    <3>1. a \in Nat
      BY <1>5 DEF Gives
    <3> QED BY <1>2, <1>5, <3>1, PageGives
  <2>2. o \in Nat /\ a \in InReach(p, q) /\ o \in InReach(p, q)
    BY <1>4, <2>1
  <2>3. CASE o >= q.from
    <3>1. <<p, o>> \in Found(q, read)
      BY <1>5, <2>1, <2>3, FoundHas
    <3> QED BY <1>1, <1>2, <2>2, <3>1, PageGives
  <2>4. CASE ~(o >= q.from)
    <3>1. a < q.from /\ o < q.from
      BY <1>3, <1>5, <2>1, <2>2, <2>4
    <3>2. p \in Partitions
      BY <1>3, <2>1
    <3>3. a = o
      BY <1>3, <2>2, <3>1, <3>2, Aheadward
    <3> QED BY <1>5, <3>3
  <2> QED BY <2>3, <2>4
<1>6. ASSUME NEW p, NEW a \in Gives(c, p), NEW b \in Gives(c, p), NEW o \in Nat, a <= o, o <= b, Accepts(q, p, o)
      PROVE  o \in Gives(c, p)
  <2>1. p \in q.partitions /\ a \in read[p] /\ b \in read[p]
    BY <1>2, <1>6, PageGives
  <2>2. a \in InReach(p, q) /\ b \in Nat /\ b < stop[p] /\ stop[p] \in Nat
    BY <1>4, <2>1
  <2>3. o \in InReach(p, q)
    <3>1. p \in Partitions
      BY <1>3, <2>1
    <3> QED BY <1>3, <1>6, <2>2, <3>1, Aheadward
  <2>4. o < stop[p]
    BY <1>6, <2>2
  <2>5. o \in read[p]
    BY <2>1, <2>3, <2>4 DEF Made, IsRead
  <2> QED BY <1>5, <1>6, <2>5
<1> QED BY <1>1, <1>2, <1>5, <1>6

\* A row's batch ends with it or one offset on, in the log.
LEMMA LastOfIs ==
  ASSUME LogOK, NEW id \in IdSet, id[2] < high[id[1]]
  PROVE  /\ LastOf(id) \in Nat /\ LastOf(id) < high[id[1]] /\ id[2] <= LastOf(id)
         /\ LastOf(id) = id[2] \/ (LastOf(id) = id[2] + 1 /\ Kind(id[1], LastOf(id)) = "rest")
BY DEF LastOf, IdSet, LogOK

\* Where a page over one partition says the next one starts.
BackPage(q, p, page) ==
  /\ page.next # Nowhere =>
       /\ page.next \in Int /\ -1 <= page.next /\ page.next < high[p] /\ page.next < q.from
       /\ \A o \in Gives(page.items, p) : page.next < o
       /\ \A o \in Nat : page.next < o /\ o <= q.from /\ Accepts(q, p, o) => o \in Gives(page.items, p)
  /\ ~page.more \/ page.next = Nowhere =>
       \A o \in Nat : o <= q.from /\ Accepts(q, p, o) => o \in Gives(page.items, p)

\* A page that says there is nothing more was read to the end.
LEMMA NothingBelow ==
  ASSUME NEW q, NEW read, NEW below \in MoreBelow(q, read), ~below, NEW p \in q.partitions
  PROVE  read[p] = InReach(p, q)
BY DEF MoreBelow

LEMMA PageBack ==
  ASSUME LogOK, NEW q, NEW read, NEW stop, NEW all, Made(q, read, stop, all), q.desc,
         NEW below \in MoreBelow(q, read), NEW p, q.partitions = {p}, InOrder(p)
  PROVE  BackPage(q, p, Page(q, read, all, below))
<1>1. q.from \in Int /\ p \in Partitions /\ q.desc \in BOOLEAN
  BY DEF Made
<1>2. PICK page, c, seen : page = Page(q, read, all, below) /\ c = Cut(all) /\ seen = Seen(q, read)
  OBVIOUS
<1>3. /\ page.items = c
      /\ page.more = (Len(all) > Limit \/ below)
      /\ page.next = NextAnchor(q, c, seen, Len(all) > Limit)
  BY <1>2 DEF Page
<1>4. /\ \A a \in Gives(c, p) : a <= q.from
      /\ \A a \in Gives(c, p), o \in Nat : a <= o /\ o <= q.from /\ Accepts(q, p, o) => o \in Gives(c, p)
  BY <1>2, DescGives
<1>5. \A o \in Gives(c, p) : o \in Nat /\ o < high[p]
  <2>1. \A o \in Gives(c, p) : o \in Nat
    BY DEF Gives
  <2>2. \A o \in Gives(c, p) : o < high[p]
    BY <1>2, PageGives
  <2> QED BY <2>1, <2>2
<1>6. read[p] = {o \in InReach(p, q) : o >= stop[p]} /\ stop[p] \in Nat /\ DOMAIN read = {p}
  BY DEF Made, IsRead
<1>7. \A o \in read[p] : o \in Nat /\ o < high[p] /\ o <= q.from
  <2> SUFFICES ASSUME NEW o \in read[p] PROVE o \in Nat /\ o < high[p] /\ o <= q.from
    OBVIOUS
  <2>1. o \in InReach(p, q)
    BY <1>6
  <2>2. o \in Nat /\ o < high[p]
    BY <1>1, <2>1, InTheLog
  <2> QED BY <1>1, <2>1, <2>2, Behindward
<1>8. Nowhere \notin Int /\ high[p] \in Nat /\ Limit \in Nat \ {0}
  BY <1>1, PagesAssumption DEF LogOK
<1>9. CASE Len(all) > Limit
  <2> DEFINE S == {id[2] : id \in ToSet(c)}
  <2>1. c \in Seq(IdSet) /\ Len(c) = Limit
    BY <1>2, <1>9, CutIs, FoundIs
  <2>2. ToSet(c) = {c[i] : i \in 1 .. Limit}
    BY <2>1, LenProperties DEF ToSet
  <2>3. S # {}
    <3>1. 1 \in 1 .. Limit
      BY <1>8
    <3>2. c[1] \in ToSet(c)
      BY <2>2, <3>1
    <3>3. c[1][2] \in S
      BY <3>2
    <3> HIDE DEF S
    <3> QED BY <3>3
  <2>4. \A o \in S : o \in Gives(c, p)
    <3> SUFFICES ASSUME NEW i \in 1 .. Limit PROVE c[i][2] \in Gives(c, p)
      BY <2>2
    <3>1. c[i] \in IdSet /\ c[i] \in Found(q, read)
      <4>1. all \in Seq(IdSet) /\ Len(all) \in Nat /\ \A k \in 1 .. Len(all) : all[k] \in Found(q, read)
        BY FoundIs
      <4>2. c[i] = all[i] /\ i \in 1 .. Len(all)
        BY <1>2, <1>8, <1>9, <2>1, <4>1, CutIs
      <4> QED BY <2>1, <4>1, <4>2, ElementOfSeq
    <3>2. c[i][1] = p
      BY <3>1, FoundIs
    <3>3. c[i] = <<p, c[i][2]>> /\ c[i][2] \in Nat
      BY <3>1, <3>2 DEF IdSet
    <3> QED BY <2>1, <3>3 DEF Gives
  <2>5. \A o \in Gives(c, p) : o \in S
    <3> SUFFICES ASSUME NEW o \in Gives(c, p) PROVE o \in S
      OBVIOUS
    <3>1. PICK i \in 1 .. Limit : c[i] = <<p, o>>
      BY <2>1 DEF Gives
    <3> QED BY <2>2, <3>1
  <2>6. page.next = Min(S) - 1
    BY <1>3, <1>9, <2>3 DEF NextAnchor
  <2> HIDE DEF S
  <2>7. PICK l : l = Min(S)
    OBVIOUS
  <2>8. l \in S /\ \A o \in S : l <= o
    <3>1. S \in SUBSET Nat
      BY <1>5, <2>4
    <3> QED BY <2>3, <2>7, <3>1, MinIs
  <2>9. l \in Nat /\ l < high[p] /\ l <= q.from /\ l \in Gives(c, p)
    BY <1>4, <1>5, <2>4, <2>8
  <2>10. page.next = l - 1
    BY <2>6, <2>7
  <2>11. page.next \in Int /\ -1 <= page.next /\ page.next < high[p] /\ page.next < q.from
    BY <1>1, <1>8, <2>9, <2>10
  <2>12. \A o \in Gives(c, p) : page.next < o
    BY <1>5, <2>5, <2>8, <2>9, <2>10
  <2>13. \A o \in Nat : page.next < o /\ o <= q.from /\ Accepts(q, p, o) => o \in Gives(c, p)
    <3>1. \A o \in Nat : page.next < o => l <= o
      BY <2>9, <2>10
    <3> QED BY <1>4, <2>9, <3>1
  <2>14. page.more /\ page.next # Nowhere
    BY <1>3, <1>8, <1>9, <2>11
  <2> QED BY <1>2, <1>3, <2>11, <2>12, <2>13, <2>14 DEF BackPage
<1>10. CASE ~(Len(all) > Limit)
  <2> DEFINE S == {id[2] : id \in seen}
  <2>1. Len(all) <= Limit
    BY <1>8, <1>10, FoundIs
  <2>2. ASSUME NEW o \in read[p], Accepts(q, p, o) PROVE o \in Gives(c, p)
    <3>1. <<p, o>> \in Found(q, read)
      BY <2>2, FoundHas
    <3> QED BY <1>2, <1>7, <2>1, <3>1, PageGives
  <2>3. seen = Ids(read)
    BY <1>2 DEF Seen
  <2>4. \A o \in S : o \in read[p]
    <3>1. \A id \in Ids(read) : id[1] \in q.partitions /\ id[2] \in read[id[1]]
      BY IdsAre DEF Made
    <3> QED BY <2>3, <3>1
  <2>5. \A o \in read[p] : o \in S
    <3>1. \A o \in read[p] : <<p, o>> \in Ids(read) /\ <<p, o>>[2] = o
      BY IdsAre DEF Made
    <3> QED BY <2>3, <3>1
  <2>6. page.next = IF S = {} THEN Nowhere ELSE Min(S) - 1
    BY <1>3, <1>10 DEF NextAnchor
  <2> HIDE DEF S
  <2>7. S = read[p]
    BY <2>4, <2>5
  <2>8. \A o \in Gives(c, p) : o \in read[p]
    BY <1>2, PageGives
  <2>9. \A o \in Nat : o <= q.from /\ Accepts(q, p, o) => o \in InReach(p, q)
    BY <1>1, Behindward
  <2>10. CASE S = {}
    <3>1. Ids(read) = {}
      <4>1. \A id \in Ids(read) : id[1] \in q.partitions /\ id[2] \in read[id[1]]
        BY IdsAre DEF Made
      <4> QED BY <2>7, <2>10, <4>1
    <3>2. Total(read) = 0
      BY <3>1, FS_EmptySet DEF Total
    <3>3. read[p] = InReach(p, q)
      <4>1. \/ Total(read) \in Limit .. Limit + 1
            \/ \A pp \in q.partitions : read[pp] = InReach(pp, q)
        BY DEF Made, IsRead
      <4>2. ~(Total(read) \in Limit .. Limit + 1)
        BY <1>8, <3>2
      <4> QED BY <4>1, <4>2
    <3>4. \A o \in Nat : o <= q.from /\ Accepts(q, p, o) => o \in Gives(c, p)
      BY <2>7, <2>9, <2>10, <3>3
    <3>5. page.next = Nowhere
      BY <2>6, <2>10
    <3> QED BY <1>2, <1>3, <3>4, <3>5 DEF BackPage
  <2>11. CASE S # {}
    <3>1. PICK l : l = Min(S)
      OBVIOUS
    <3>2. l \in S /\ \A o \in S : l <= o
      <4>1. S \in SUBSET Nat
        BY <1>7, <2>7
      <4> QED BY <2>11, <3>1, <4>1, MinIs
    <3>3. l \in Nat /\ l < high[p] /\ l <= q.from /\ l \in read[p]
      BY <1>7, <2>7, <3>2
    <3>4. page.next = l - 1
      BY <2>6, <2>11, <3>1
    <3>5. page.next \in Int /\ -1 <= page.next /\ page.next < high[p] /\ page.next < q.from
      BY <1>1, <1>8, <3>3, <3>4
    <3>6. \A o \in Gives(c, p) : page.next < o
      <4>1. \A o \in Gives(c, p) : o \in Nat /\ l <= o
        BY <1>5, <2>7, <2>8, <3>2
      <4> QED BY <3>3, <3>4, <4>1
    <3>7. ASSUME NEW o \in Nat, page.next < o, o <= q.from, Accepts(q, p, o) PROVE o \in Gives(c, p)
      <4>1. l <= o
        BY <3>3, <3>4, <3>7
      <4>2. l >= stop[p]
        BY <1>6, <3>3
      <4>3. o >= stop[p]
        BY <1>6, <3>3, <4>1, <4>2
      <4>4. o \in read[p]
        BY <1>6, <2>9, <3>7, <4>3
      <4> QED BY <2>2, <3>7, <4>4
    <3>8. ASSUME ~page.more \/ page.next = Nowhere, NEW o \in Nat, o <= q.from, Accepts(q, p, o)
          PROVE  o \in Gives(c, p)
      <4>1. page.next # Nowhere
        BY <1>8, <3>5
      <4>2. ~below
        BY <1>3, <3>8, <4>1
      <4>3. read[p] = InReach(p, q)
        BY <4>2, NothingBelow
      <4> QED BY <2>2, <2>9, <3>8, <4>3
    <3> QED BY <1>2, <1>3, <3>5, <3>6, <3>7, <3>8 DEF BackPage
  <2> QED BY <2>10, <2>11
<1> QED BY <1>9, <1>10

-----------------------------------------------------------------------------
(***************************************************************************)
(* A walk over one partition, as sets of offsets: acc, what the window     *)
(* accepts; S and G, what a store shows and a page gives; hi, the log end  *)
(***************************************************************************)
Held(acc, S, a, b) == \A o \in acc : a <= o /\ o <= b => o \in S

NoGap(acc, S)  == \A a, b \in S : Held(acc, S, a, b)
Bottom(acc, S) == \A a \in S : Held(acc, S, 0, a)

\* The next page starts at x, off the edge of what is shown.
Edge(desc, acc, S, hi, x) ==
  IF desc
  THEN /\ x \in Int /\ -1 <= x /\ x < hi
       /\ \A a \in S : x < a /\ Held(acc, S, x + 1, a)
  ELSE /\ x \in Nat /\ x <= hi
       /\ \A a \in S : a < x /\ Held(acc, S, a, x - 1)

\* What a page from `from` gives, back and forth, and where it says the next
\* one starts.
BackFrom(acc, hi, from, G, next, more) ==
  /\ from \in Int /\ from < hi
  /\ \A a \in G : a <= from /\ Held(acc, G, a, from)
  /\ next # Nowhere =>
       /\ next \in Int /\ -1 <= next /\ next < from
       /\ \A a \in G : next < a
       /\ Held(acc, G, next + 1, from)
  /\ ~more \/ next = Nowhere => Held(acc, G, 0, from)

ForthFrom(acc, hi, from, G, next) ==
  /\ from \in Nat /\ from <= hi
  /\ NoGap(acc, G)
  /\ \A a \in G : a < hi /\ from - 1 <= a
  /\ next = Nowhere => G = {}
  /\ next # Nowhere =>
       /\ next \in Nat /\ from <= next /\ next <= hi
       /\ Held(acc, G, from, next - 1)
       /\ \A a \in G : a < next /\ Held(acc, G, a, next - 1)

\* A page back: the rows may lose the highest to the cap.
LEMMA StepBack ==
  ASSUME NEW acc \in SUBSET Nat, NEW S \in SUBSET Nat, NEW G \in SUBSET Nat, NEW T \in SUBSET Nat, NEW hi \in Nat,
         NEW from, NEW next, NEW more,
         NoGap(acc, S), Edge(TRUE, acc, S, hi, from), BackFrom(acc, hi, from, G, next, more),
         T \subseteq S \cup G, \A o \in S \cup G, b \in T : o <= b => o \in T
  PROVE  /\ NoGap(acc, T) /\ \A a \in S, b \in G : b < a
         /\ next # Nowhere => Edge(TRUE, acc, T, hi, next)
         /\ ~more \/ next = Nowhere => Bottom(acc, T)
<1>1. from \in Int /\ from < hi /\ \A a \in G : a <= from /\ \A o \in acc : a <= o /\ o <= from => o \in G
  BY DEF BackFrom, Held
<1>2. \A a \in S : from < a /\ \A o \in acc : from + 1 <= o /\ o <= a => o \in S
  BY DEF Edge, Held
<1>3. \A a, b \in S : \A o \in acc : a <= o /\ o <= b => o \in S
  BY DEF NoGap, Held
<1>4. \A a \in S, b \in G : b < a
  BY <1>1, <1>2
<1>5. NoGap(acc, T)
  <2> SUFFICES ASSUME NEW a \in T, NEW b \in T, NEW o \in acc, a <= o, o <= b PROVE o \in T
    BY DEF NoGap, Held
  <2>1. o \in S \cup G
    <3>1. CASE o <= from
      <4>1. a \in G
        BY <1>1, <1>2, <3>1
      <4> QED BY <1>1, <3>1, <4>1
    <3>2. CASE ~(o <= from)
      <4>1. b \in S /\ from + 1 <= o
        BY <1>1, <3>2
      <4> QED BY <1>2, <4>1
    <3> QED BY <3>1, <3>2
  <2> QED BY <2>1
<1>6. ASSUME next # Nowhere PROVE Edge(TRUE, acc, T, hi, next)
  <2>1. next \in Int /\ -1 <= next /\ next < from /\ (\A a \in G : next < a)
        /\ \A o \in acc : next + 1 <= o /\ o <= from => o \in G
    BY <1>6 DEF BackFrom, Held
  <2>2. next < hi
    BY <1>1, <2>1
  <2>3. \A a \in T : next < a
    BY <1>2, <1>1, <2>1
  <2>4. ASSUME NEW a \in T, NEW o \in acc, next + 1 <= o, o <= a PROVE o \in T
    <3>1. o \in S \cup G
      <4>1. CASE o <= from
        BY <2>1, <2>4, <4>1
      <4>2. CASE ~(o <= from)
        <5>1. a \in S /\ from + 1 <= o
          BY <1>1, <2>4, <4>2
        <5> QED BY <1>2, <2>4, <5>1
      <4> QED BY <4>1, <4>2
    <3> QED BY <2>4, <3>1
  <2> QED BY <2>1, <2>2, <2>3, <2>4 DEF Edge, Held
<1>7. ASSUME ~more \/ next = Nowhere PROVE Bottom(acc, T)
  <2>1. \A o \in acc : 0 <= o /\ o <= from => o \in G
    BY <1>7 DEF BackFrom, Held
  <2> SUFFICES ASSUME NEW a \in T, NEW o \in acc, o <= a PROVE o \in T
    BY DEF Bottom, Held
  <2>2. o \in S \cup G
    <3>1. CASE o <= from
      BY <2>1, <3>1
    <3>2. CASE ~(o <= from)
      <4>1. a \in S /\ from + 1 <= o
        BY <1>1, <3>2
      <4> QED BY <1>2, <4>1
    <3> QED BY <3>1, <3>2
  <2> QED BY <2>2
<1> QED BY <1>4, <1>5, <1>6, <1>7

\* A page forth.
LEMMA StepForth ==
  ASSUME NEW acc \in SUBSET Nat, NEW S \in SUBSET Nat, NEW G \in SUBSET Nat, NEW hi \in Nat, NEW from, NEW next,
         NoGap(acc, S), Edge(FALSE, acc, S, hi, from), ForthFrom(acc, hi, from, G, next)
  PROVE  /\ NoGap(acc, S \cup G)
         /\ next # Nowhere => Edge(FALSE, acc, S \cup G, hi, next)
<1>1. from \in Nat /\ from <= hi /\ (\A a \in G : from - 1 <= a) /\ \A a, b \in G, o \in acc : a <= o /\ o <= b => o \in G
  BY DEF ForthFrom, NoGap, Held
<1>2. \A a \in S : a < from /\ \A o \in acc : a <= o /\ o <= from - 1 => o \in S
  BY DEF Edge, Held
<1>3. \A a, b \in S : \A o \in acc : a <= o /\ o <= b => o \in S
  BY DEF NoGap, Held
<1>4. CASE next = Nowhere
  BY <1>4 DEF ForthFrom
<1>5. CASE next # Nowhere
  <2>1. /\ next \in Nat /\ from <= next /\ next <= hi
        /\ \A o \in acc : from <= o /\ o <= next - 1 => o \in G
        /\ \A a \in G : a < next /\ \A o \in acc : a <= o /\ o <= next - 1 => o \in G
    BY <1>5 DEF ForthFrom, Held
  <2>2. ASSUME NEW a \in S \cup G, NEW o \in acc, a <= o, o <= next - 1 PROVE o \in S \cup G
    <3>1. CASE a \in G
      BY <2>1, <2>2, <3>1
    <3>2. CASE a \in S /\ o < from
      <4>1. o <= from - 1
        BY <1>1, <3>2
      <4> QED BY <1>2, <2>2, <3>2, <4>1
    <3>3. CASE a \in S /\ ~(o < from)
      <4>1. from <= o
        BY <1>1, <3>3
      <4> QED BY <2>1, <2>2, <4>1
    <3> QED BY <3>1, <3>2, <3>3
  <2>3. \A a \in S \cup G : a < next
    BY <1>1, <1>2, <2>1
  <2>4. NoGap(acc, S \cup G)
    <3> SUFFICES ASSUME NEW a \in S \cup G, NEW b \in S \cup G, NEW o \in acc, a <= o, o <= b PROVE o \in S \cup G
      BY DEF NoGap, Held
    <3>1. b < next
      BY <2>3
    <3>2. o <= next - 1
      BY <2>1, <3>1
    <3> QED BY <2>2, <3>2
  <2>5. Edge(FALSE, acc, S \cup G, hi, next)
    BY <2>1, <2>2, <2>3 DEF Edge, Held
  <2> QED BY <2>4, <2>5
<1> QED BY <1>4, <1>5

\* The next page starts off the rows while no page has said where.
LEMMA EdgeOfRows ==
  ASSUME NEW acc \in SUBSET Nat, NEW S \in SUBSET Nat, NEW hi \in Nat, NoGap(acc, S), S # {}, \A a \in S : a < hi
  PROVE  Edge(TRUE, acc, S, hi, Min(S) - 1) /\ Edge(FALSE, acc, S, hi, Max(S) + 1)
<1>1. \A a, b \in S : \A o \in acc : a <= o /\ o <= b => o \in S
  BY DEF NoGap, Held
<1>2. PICK l : l = Min(S) /\ l \in S /\ \A a \in S : l <= a
  BY MinIs
<1>3. PICK g : g = Max(S) /\ g \in S /\ \A a \in S : a <= g
  <2>1. \A a \in S : a \in 0 .. hi
    OBVIOUS
  <2>2. S \in SUBSET (0 .. hi)
    BY <2>1
  <2> QED BY <2>2, MaxIs
<1>4. Edge(TRUE, acc, S, hi, l - 1)
  <2>1. l - 1 \in Int /\ -1 <= l - 1 /\ l - 1 < hi
    BY <1>2
  <2>2. \A a \in S : l - 1 < a
    BY <1>2
  <2>3. \A a \in S, o \in acc : l - 1 + 1 <= o /\ o <= a => o \in S
    <3>1. l - 1 + 1 = l
      BY <1>2
    <3> QED BY <1>1, <1>2, <3>1
  <2> QED BY <2>1, <2>2, <2>3 DEF Edge, Held
<1>5. PICK x : x = g + 1
  OBVIOUS
<1>6. Edge(FALSE, acc, S, hi, x)
  <2>1. x \in Nat /\ x <= hi
    BY <1>3, <1>5
  <2>2. \A a \in S : a < x
    BY <1>3, <1>5
  <2>3. \A a \in S, o \in acc : a <= o /\ o <= x - 1 => o \in S
    <3>1. x - 1 = g
      BY <1>3, <1>5
    <3> QED BY <1>1, <1>3, <3>1
  <2> QED BY <2>1, <2>2, <2>3 DEF Edge, Held
<1> QED BY <1>2, <1>3, <1>4, <1>5, <1>6

\* The log moves on: of what was there, less is accepted.
Moves(acc, hi, acc2, hi2) == hi <= hi2 /\ \A o \in acc2 : o < hi => o \in acc

LEMMA EdgeMoves ==
  ASSUME NEW acc \in SUBSET Nat, NEW acc2 \in SUBSET Nat, NEW hi \in Nat, NEW hi2 \in Nat, Moves(acc, hi, acc2, hi2),
         NEW S \in SUBSET Nat, \A a \in S : a < hi
  PROVE  /\ NoGap(acc, S) => NoGap(acc2, S)
         /\ Bottom(acc, S) => Bottom(acc2, S)
         /\ \A desc \in BOOLEAN : \A x : Edge(desc, acc, S, hi, x) => Edge(desc, acc2, S, hi2, x)
<1>1. hi <= hi2 /\ \A o \in acc2 : o < hi => o \in acc
  BY DEF Moves
<1>2. ASSUME NoGap(acc, S) PROVE NoGap(acc2, S)
  <2> SUFFICES ASSUME NEW a \in S, NEW b \in S, NEW o \in acc2, a <= o, o <= b PROVE o \in S
    BY DEF NoGap, Held
  <2>1. o \in acc
    BY <1>1
  <2> QED BY <1>2, <2>1 DEF NoGap, Held
<1>3. ASSUME Bottom(acc, S) PROVE Bottom(acc2, S)
  <2> SUFFICES ASSUME NEW a \in S, NEW o \in acc2, 0 <= o, o <= a PROVE o \in S
    BY DEF Bottom, Held
  <2>1. o \in acc
    BY <1>1
  <2> QED BY <1>3, <2>1 DEF Bottom, Held
<1>4. ASSUME NEW x, Edge(TRUE, acc, S, hi, x) PROVE Edge(TRUE, acc2, S, hi2, x)
  <2>1. x \in Int /\ -1 <= x /\ x < hi /\ \A a \in S : x < a /\ \A o \in acc : x + 1 <= o /\ o <= a => o \in S
    BY <1>4 DEF Edge, Held
  <2>2. x < hi2
    BY <1>1, <2>1
  <2>3. ASSUME NEW a \in S, NEW o \in acc2, x + 1 <= o, o <= a PROVE o \in S
    <3>1. o \in acc
      BY <1>1, <2>3
    <3> QED BY <2>1, <2>3, <3>1
  <2> QED BY <2>1, <2>2, <2>3 DEF Edge, Held
<1>5. ASSUME NEW x, Edge(FALSE, acc, S, hi, x) PROVE Edge(FALSE, acc2, S, hi2, x)
  <2>1. x \in Nat /\ x <= hi /\ \A a \in S : a < x /\ \A o \in acc : a <= o /\ o <= x - 1 => o \in S
    BY <1>5 DEF Edge, Held
  <2>2. x <= hi2
    BY <1>1, <2>1
  <2>3. ASSUME NEW a \in S, NEW o \in acc2, a <= o, o <= x - 1 PROVE o \in S
    <3>1. o \in acc
      BY <1>1, <2>1, <2>3
    <3> QED BY <2>1, <2>3, <3>1
  <2> QED BY <2>1, <2>2, <2>3 DEF Edge, Held
<1> QED BY <1>2, <1>3, <1>4, <1>5

LEMMA PageMoves ==
  ASSUME NEW acc \in SUBSET Nat, NEW acc2 \in SUBSET Nat, NEW hi \in Nat, NEW hi2 \in Nat, Moves(acc, hi, acc2, hi2),
         NEW G \in SUBSET Nat, NEW from, NEW next, NEW more
  PROVE  /\ BackFrom(acc, hi, from, G, next, more) => BackFrom(acc2, hi2, from, G, next, more)
         /\ ForthFrom(acc, hi, from, G, next) => ForthFrom(acc2, hi2, from, G, next)
<1>1. hi <= hi2 /\ \A o \in acc2 : o < hi => o \in acc
  BY DEF Moves
<1>2. ASSUME BackFrom(acc, hi, from, G, next, more) PROVE BackFrom(acc2, hi2, from, G, next, more)
  <2>1. from \in Int /\ from < hi /\ from < hi2
    BY <1>1, <1>2 DEF BackFrom
  <2>2. \A o \in acc2 : o <= from => o \in acc
    BY <1>1, <2>1
  <2>3. \A a : Held(acc, G, a, from) => Held(acc2, G, a, from)
    BY <2>2 DEF Held
  <2> QED BY <1>2, <2>1, <2>3 DEF BackFrom
<1>3. ASSUME ForthFrom(acc, hi, from, G, next) PROVE ForthFrom(acc2, hi2, from, G, next)
  <2>1. from \in Nat /\ from <= hi /\ from <= hi2 /\ \A a \in G : a < hi /\ a < hi2 /\ from - 1 <= a
    BY <1>1, <1>3 DEF ForthFrom
  <2>2. NoGap(acc2, G)
    <3>1. NoGap(acc, G)
      BY <1>3 DEF ForthFrom
    <3> QED BY <2>1, <3>1, EdgeMoves
  <2>3. ASSUME next # Nowhere
        PROVE  /\ next \in Nat /\ from <= next /\ next <= hi2
               /\ Held(acc2, G, from, next - 1)
               /\ \A a \in G : a < next /\ Held(acc2, G, a, next - 1)
    <3>1. /\ next \in Nat /\ from <= next /\ next <= hi
          /\ Held(acc, G, from, next - 1) /\ \A a \in G : a < next /\ Held(acc, G, a, next - 1)
      BY <1>3, <2>3 DEF ForthFrom
    <3>2. \A o \in acc2 : o <= next - 1 => o \in acc
      BY <1>1, <3>1
    <3>3. \A a : Held(acc, G, a, next - 1) => Held(acc2, G, a, next - 1)
      BY <3>2 DEF Held
    <3>4. next <= hi2
      BY <1>1, <3>1
    <3> QED BY <3>1, <3>3, <3>4
  <2>4. next = Nowhere => G = {}
    BY <1>3 DEF ForthFrom
  <2> QED BY <2>1, <2>2, <2>3, <2>4 DEF ForthFrom
<1> QED BY <1>2, <1>3

-----------------------------------------------------------------------------
(***************************************************************************)
(* Pages over one partition                                                *)
(***************************************************************************)
Acc(q, p) == {o \in Nat : Accepts(q, p, o)}

LEMMA GoesBack ==
  ASSUME LogOK, NEW q, NEW read, NEW stop, NEW all, Made(q, read, stop, all), q.desc,
         NEW p, q.partitions = {p}, InOrder(p), q.from < high[p],
         NEW below \in MoreBelow(q, read), NEW page, page = Page(q, read, all, below)
  PROVE  BackFrom(Acc(q, p), high[p], q.from, Gives(page.items, p), page.next, page.more)
<1>1. BackPage(q, p, page)
  BY PageBack
<1>2. page.items = Cut(all)
  BY DEF Page
<1>3. q.from \in Int
  BY DEF Made
<1>4. PICK G, from, next : G = Gives(page.items, p) /\ from = q.from /\ next = page.next
  OBVIOUS
<1>5. \A a \in G : a <= from /\ \A o \in Nat : a <= o /\ o <= from /\ Accepts(q, p, o) => o \in G
  BY <1>2, <1>4, DescGives
<1>6. \A a \in G : a <= from /\ Held(Acc(q, p), G, a, from)
  BY <1>5 DEF Held, Acc
<1>7. ASSUME next # Nowhere
      PROVE  /\ next \in Int /\ -1 <= next /\ next < from
             /\ \A a \in G : next < a
             /\ Held(Acc(q, p), G, next + 1, from)
  <2>1. /\ next \in Int /\ -1 <= next /\ next < from
        /\ \A a \in G : next < a
        /\ \A o \in Nat : next < o /\ o <= from /\ Accepts(q, p, o) => o \in G
    BY <1>1, <1>4, <1>7 DEF BackPage
  <2>2. \A o \in Nat : next + 1 <= o => next < o
    BY <2>1
  <2> QED BY <2>1, <2>2 DEF Held, Acc
<1>8. ASSUME ~page.more \/ next = Nowhere PROVE Held(Acc(q, p), G, 0, from)
  <2>1. \A o \in Nat : o <= from /\ Accepts(q, p, o) => o \in G
    BY <1>1, <1>4, <1>8 DEF BackPage
  <2> QED BY <2>1 DEF Held, Acc
<1> QED BY <1>3, <1>4, <1>6, <1>7, <1>8 DEF BackFrom

LEMMA GoesForth ==
  ASSUME LogOK, NEW q, NEW read, NEW stop, NEW all, Made(q, read, stop, all), ~q.desc,
         NEW p, q.partitions = {p}, q.from \in Nat, q.from <= high[p],
         NEW below, NEW page, page = Page(q, read, all, below)
  PROVE  ForthFrom(Acc(q, p), high[p], q.from, Gives(page.items, p), page.next)
<1>1. p \in Partitions /\ q.from \in Int
  BY DEF Made
<1>2. PICK c, G, from, seen, hi : c = Cut(all) /\ G = Gives(c, p) /\ from = q.from /\ seen = Seen(q, read) /\ hi = high[p]
  OBVIOUS
<1>3. Len(all) <= Limit /\ Len(all) \in Nat /\ Limit \in Nat
  BY AscGives, FoundIs, PagesAssumption
<1>4. page.items = c /\ page.next = NextAnchor(q, c, seen, FALSE)
  <2>1. (Len(all) > Limit) = FALSE
    BY <1>3
  <2> QED BY <1>2, <2>1 DEF Page
<1>5. hi \in Nat /\ from \in Nat /\ from <= hi /\ Nowhere \notin Int
  BY <1>1, <1>2, PagesAssumption DEF LogOK
<1>6. read[p] = {o \in InReach(p, q) : o < stop[p]} /\ stop[p] \in Nat
  BY DEF Made, IsRead
<1>7. \A o \in InReach(p, q) : o \in Nat /\ o < hi
  BY <1>1, <1>2, InTheLog
<1>8. ASSUME NEW a \in InReach(p, q) PROVE from - 1 <= a
  <2>1. a < from => a = from - 1 \/ a = hi - 1
    BY <1>1, <1>2, <1>8, Aheadward
  <2>2. a \in Nat
    BY <1>7, <1>8
  <2> QED BY <1>5, <2>1, <2>2
<1>9. \A a \in G : a \in Nat /\ a \in read[p] /\ <<p, a>> \in Found(q, read)
  <2>1. \A a \in G : a \in Nat
    BY <1>2 DEF Gives
  <2>2. \A a \in G : a \in read[p] /\ <<p, a>> \in Found(q, read)
    BY <1>2, PageGives
  <2> QED BY <2>1, <2>2
<1>10. \A a \in G : a \in InReach(p, q) /\ a < hi /\ from - 1 <= a
  BY <1>6, <1>7, <1>8, <1>9
<1>11. NoGap(Acc(q, p), G)
  <2>1. \A a, b \in Gives(Cut(all), p) : \A o \in Nat : a <= o /\ o <= b /\ Accepts(q, p, o) => o \in Gives(Cut(all), p)
    BY AscGives
  <2> QED BY <1>2, <2>1 DEF NoGap, Held, Acc
<1>12. Found(q, read) \subseteq seen
  BY <1>2 DEF Found
<1>13. CASE seen = {}
  <2>1. G = {}
    BY <1>9, <1>12, <1>13
  <2>2. page.next = Nowhere
    BY <1>4, <1>13 DEF NextAnchor
  <2> QED BY <1>2, <1>4, <1>5, <1>10, <1>11, <2>1, <2>2 DEF ForthFrom
<1>14. CASE seen # {}
  <2> DEFINE H == {LastOf(id) : id \in seen}
  <2>1. ASSUME NEW id \in seen
        PROVE  /\ id[1] = p /\ id[2] \in read[p] /\ id[2] \in Nat
               /\ LastOf(id) \in Nat /\ LastOf(id) < hi /\ id[2] <= LastOf(id)
               /\ LastOf(id) = id[2] \/ (LastOf(id) = id[2] + 1 /\ Kind(p, LastOf(id)) = "rest")
    <3>1. id \in Ids(read)
      BY <1>2, <2>1 DEF Seen
    <3>2. id \in IdSet /\ id[1] \in q.partitions /\ id[2] \in read[id[1]] /\ id[2] < high[id[1]]
      BY <3>1, IdsAre DEF Made
    <3>3. id[1] = p
      BY <3>2
    <3>4. /\ LastOf(id) \in Nat /\ LastOf(id) < high[id[1]] /\ id[2] <= LastOf(id)
          /\ LastOf(id) = id[2] \/ (LastOf(id) = id[2] + 1 /\ Kind(id[1], LastOf(id)) = "rest")
      BY <3>2, LastOfIs
    <3> QED BY <1>2, <1>6, <1>7, <3>2, <3>3, <3>4
  <2>2. page.next = Max(H) + 1
    BY <1>4, <1>14 DEF NextAnchor
  <2>3. H # {} /\ \A x \in H : x \in Nat /\ x < hi
    BY <1>14, <2>1
  <2>4. \A id \in seen : LastOf(id) \in H
    OBVIOUS
  <2>5. \A x \in H : \E id \in seen : x = LastOf(id)
    OBVIOUS
  <2> HIDE DEF H
  <2>6. PICK m : m = Max(H) /\ m \in H /\ \A x \in H : x <= m
    <3>1. \A x \in H : x \in 0 .. hi
      BY <1>5, <2>3
    <3>2. H \in SUBSET (0 .. hi)
      BY <3>1
    <3> QED BY <1>5, <2>3, <3>2, MaxIs
  <2>7. m \in Nat /\ m < hi
    BY <2>3, <2>6
  <2>8. PICK next : next = page.next
    OBVIOUS
  <2>9. next = m + 1 /\ next \in Nat /\ next <= hi /\ next # Nowhere
    BY <1>5, <2>2, <2>6, <2>7, <2>8
  <2>10. \A id \in seen : id[2] <= m
    <3> SUFFICES ASSUME NEW id \in seen PROVE id[2] <= m
      OBVIOUS
    <3>1. id[2] \in Nat /\ LastOf(id) \in Nat /\ id[2] <= LastOf(id) /\ LastOf(id) <= m
      BY <2>1, <2>4, <2>6
    <3> QED BY <2>7, <3>1
  <2>11. from <= next
    <3>1. PICK id : id \in seen
      BY <1>14
    <3>2. from - 1 <= id[2] /\ id[2] \in Nat /\ id[2] <= m
      BY <1>6, <1>8, <2>1, <2>10, <3>1
    <3> QED BY <1>5, <2>7, <2>9, <3>2
  <2>12. \A a \in G : a < next
    <3>1. \A a \in G : a <= m
      <4> SUFFICES ASSUME NEW a \in G PROVE a <= m
        OBVIOUS
      <4>1. <<p, a>> \in seen /\ <<p, a>>[2] = a
        BY <1>9, <1>12
      <4> QED BY <2>10, <4>1
    <3>2. \A a \in Nat : a <= m => a < next
      BY <2>7, <2>9
    <3> QED BY <1>9, <3>1, <3>2
  <2>13. ASSUME NEW o \in Nat, Accepts(q, p, o), o <= m, o \in InReach(p, q) PROVE o \in read[p]
    <3>1. PICK id \in seen : m = LastOf(id)
      BY <2>5, <2>6
    <3>2. id[2] \in Nat /\ id[2] < stop[p]
      BY <1>6, <2>1, <3>1
    <3>3. o <= id[2]
      <4>1. CASE m = id[2]
        BY <2>13, <4>1
      <4>2. CASE m = id[2] + 1 /\ Kind(p, m) = "rest"
        <5>1. o # m
          BY <2>13, <4>2 DEF Accepts
        <5> QED BY <2>13, <3>2, <4>2, <5>1
      <4> QED BY <2>1, <3>1, <4>1, <4>2
    <3>4. o < stop[p]
      BY <1>6, <3>2, <3>3
    <3> QED BY <1>6, <2>13, <3>4
  <2>14. ASSUME NEW o \in Nat, Accepts(q, p, o), from <= o, o <= m PROVE o \in G
    <3>1. o >= q.from
      BY <1>2, <1>5, <2>14
    <3>2. o \in InReach(p, q)
      BY <1>1, <2>14, <3>1, Aheadward
    <3>3. o \in read[p] /\ p \in q.partitions
      BY <2>13, <2>14, <3>2
    <3>4. <<p, o>> \in Found(q, read)
      BY <2>14, <3>1, <3>3, FoundHas
    <3> QED BY <1>2, <1>3, <3>4, PageGives
  <2>15. ASSUME NEW a \in G, NEW o \in Nat, Accepts(q, p, o), a <= o, o <= m PROVE o \in G
    <3>1. o \in InReach(p, q)
      BY <1>1, <1>10, <2>15, Aheadward
    <3>2. o \in read[p]
      BY <2>13, <2>15, <3>1
    <3>3. \A b \in Gives(Cut(all), p) : \A x \in read[p] : b <= x /\ Accepts(q, p, x) => x \in Gives(Cut(all), p)
      BY AscGives
    <3> QED BY <1>2, <2>15, <3>2, <3>3
  <2>16. next - 1 = m
    BY <2>7, <2>9
  <2>17. Held(Acc(q, p), G, from, next - 1)
    BY <2>14, <2>16 DEF Held, Acc
  <2>18. \A a \in G : Held(Acc(q, p), G, a, next - 1)
    BY <2>15, <2>16 DEF Held, Acc
  <2> QED BY <1>2, <1>4, <1>5, <1>10, <1>11, <2>8, <2>9, <2>11, <2>12, <2>17, <2>18 DEF ForthFrom
<1> QED BY <1>13, <1>14

-----------------------------------------------------------------------------
(***************************************************************************)
(* The invariant                                                           *)
(***************************************************************************)
QuerySet == [desc : BOOLEAN, from : Int, partitions : SUBSET Partitions, committed : BOOLEAN]

\* A row of the window on screen is of one of its partitions.
RowOK(row) ==
  /\ 1 <= row.window /\ row.window <= window /\ row.o < high[row.p]
  /\ row.window = window => row.p \in query.partitions /\ phase = "done"

ItemsOK(items, q) ==
  /\ items \in Seq(IdSet)
  /\ \A i \in 1 .. Len(items) : items[i][1] \in q.partitions /\ items[i][2] < high[items[i][1]]

\* A page of the window on screen was asked for with its request.
PageOK(page) ==
  /\ page = [window |-> page.window, query |-> page.query, reply |-> page.reply]
  /\ page.window \in Nat \ {0} /\ page.window <= window /\ page.query \in QuerySet
  /\ page.reply # Nowhere => ItemsOK(page.reply.items, page.query) /\ page.reply.next \in Int \cup {Nowhere}
  /\ page.window = window =>
       /\ phase = "done" /\ ~exhausted
       /\ page.query.desc = query.desc /\ page.query.partitions = query.partitions

OnePage == \A a, b \in pages : a.window = window /\ b.window = window => a = b

PagesTypeInv ==
  /\ LogOK
  /\ query \in QuerySet /\ window \in Nat \ {0} /\ exhausted \in BOOLEAN /\ anchor \in Int \cup {Nowhere}
  /\ rows \in Seq(RowSet) /\ \A i \in 1 .. Len(rows) : RowOK(rows[i])
  /\ \A page \in pages : PageOK(page)
  /\ OnePage
  /\ phase # "done" => anchor = Nowhere /\ ~exhausted

Clean == OwnRows /\ CutInOrder

RowsWalk ==
  Orderly(query) /\ (Walkable(query) \/ FirstPage) =>
    /\ \A p \in Partitions : NoGap(Acc(query, p), Shows(rows, p))
    /\ query.desc => Falls(rows)

EdgeWalk ==
  Walkable(query) =>
    \A p \in query.partitions :
      /\ anchor # Nowhere => Edge(query.desc, Acc(query, p), Shows(rows, p), high[p], anchor)
      /\ query.desc /\ exhausted => Bottom(Acc(query, p), Shows(rows, p))

\* A page of the walk goes on from where the rows end.
Continues(page, p) ==
  IF query.desc
  THEN /\ FallsIds(page.reply.items)
       /\ BackFrom(Acc(query, p), high[p], page.query.from, Gives(page.reply.items, p), page.reply.next, page.reply.more)
  ELSE ForthFrom(Acc(query, p), high[p], page.query.from, Gives(page.reply.items, p), page.reply.next)

PageWalk ==
  \A page \in pages : page.window = window =>
    /\ NextOf # Nowhere /\ page.query.from = NextOf
    /\ Walkable(query) /\ page.reply # Nowhere => \A p \in query.partitions : Continues(page, p)

WalkInv == Clean => RowsWalk /\ EdgeWalk /\ PageWalk

PagesInv == PagesTypeInv /\ WalkInv

LEMMA Image ==
  ASSUME NEW S, IsFiniteSet(S), NEW f, f = [x \in S |-> f[x]]
  PROVE  IsFiniteSet({f[x] : x \in S})
<1>1. f \in Surjection(S, {f[x] : x \in S})
  BY DEF Surjection
<1> QED BY <1>1, FS_Surjection

\* A finite set of numbers has a least and a greatest.
LEMMA Bounded ==
  ASSUME NEW S \in SUBSET Nat, IsFiniteSet(S)
  PROVE  \E n \in Nat : \A x \in S : x <= n
<1> DEFINE Unbounded(T) == \A n \in Nat : \E x \in T : ~(x <= n)
           Bad == {k \in Nat : \E T \in SUBSET Nat : IsFiniteSet(T) /\ Cardinality(T) = k /\ Unbounded(T)}
<1>1. SUFFICES ASSUME Bad # {} PROVE FALSE
  <2>1. Cardinality(S) \in Nat
    BY FS_CardinalityType
  <2> QED BY <2>1
<1>2. PICK k \in Bad : \A l \in Bad : k <= l
  <2>1. Bad \in SUBSET Nat
    OBVIOUS
  <2> HIDE DEF Bad
  <2> QED BY <1>1, <2>1, Least
<1>3. PICK T \in SUBSET Nat : IsFiniteSet(T) /\ Cardinality(T) = k /\ Unbounded(T)
  BY <1>2
<1>4. PICK x \in T : TRUE
  BY <1>3
<1>5. IsFiniteSet(T \ {x}) /\ Cardinality(T \ {x}) = k - 1 /\ Cardinality(T \ {x}) \in Nat /\ k \in Nat
  BY <1>3, <1>4, FS_RemoveElement, FS_CardinalityType
<1>6. k - 1 \notin Bad
  <2> SUFFICES ASSUME k - 1 \in Bad PROVE FALSE
    OBVIOUS
  <2>1. k <= k - 1
    BY <1>2
  <2> QED BY <1>5, <2>1
<1>7. ~Unbounded(T \ {x})
  <2>1. T \ {x} \in SUBSET Nat
    OBVIOUS
  <2> QED BY <1>5, <1>6, <2>1
<1>8. PICK n \in Nat : \A y \in T \ {x} : y <= n
  BY <1>7
<1>9. \A y \in T : y <= n + x /\ n + x \in Nat
  BY <1>3, <1>4, <1>8
<1> QED BY <1>3, <1>4, <1>9

LEMMA Extremes ==
  ASSUME NEW S \in SUBSET Nat, IsFiniteSet(S), S # {}
  PROVE  Min(S) \in Nat /\ Max(S) \in Nat /\ Min(S) - 1 \in Int /\ Max(S) + 1 \in Int
<1>1. PICK n \in Nat : \A x \in S : x <= n
  BY Bounded
<1>2. S \in SUBSET (0 .. n)
  BY <1>1
<1>3. PICK l, g : l = Min(S) /\ g = Max(S)
  OBVIOUS
<1>4. l \in S /\ g \in S
  BY <1>2, <1>3, MinIs, MaxIs
<1> QED BY <1>3, <1>4

LEMMA PageNext ==
  ASSUME LogOK, NEW q, NEW read, NEW stop, NEW all, Made(q, read, stop, all), NEW below
  PROVE  Page(q, read, all, below).next \in Int \cup {Nowhere}
<1>1. PICK seen, items, cut : seen = Seen(q, read) /\ items = Cut(all) /\ cut = (Len(all) > Limit)
  OBVIOUS
<1>2. Page(q, read, all, below).next = NextAnchor(q, items, seen, cut)
  BY <1>1 DEF Page
<1>3. IsFiniteSet(seen) /\ \A id \in seen : id \in IdSet /\ LastOf(id) \in Nat
  <2>1. seen \subseteq Ids(read)
    BY <1>1 DEF Seen
  <2>2. IsFiniteSet(Ids(read)) /\ Ids(read) \subseteq IdSet
        /\ \A id \in Ids(read) : id[2] < high[id[1]]
    BY IdsAre DEF Made
  <2>3. \A id \in Ids(read) : id \in IdSet /\ LastOf(id) \in Nat
    BY <2>2, LastOfIs
  <2> QED BY <2>1, <2>2, <2>3, FS_Subset
<1>4. IsFiniteSet(ToSet(items)) /\ \A id \in ToSet(items) : id \in IdSet
  <2>1. items \in Seq(IdSet) /\ Len(items) \in Nat
    BY <1>1, FoundIs, CutIs
  <2>2. DOMAIN items = 1 .. Len(items) /\ \A i \in 1 .. Len(items) : items[i] \in IdSet
    BY <2>1, LenProperties, ElementOfSeq
  <2>3. IsFiniteSet(1 .. Len(items))
    BY <2>1, FS_Interval
  <2>5. items = [i \in 1 .. Len(items) |-> items[i]]
    BY <2>1
  <2>4. IsFiniteSet({items[i] : i \in 1 .. Len(items)})
    BY <2>3, <2>5, Image
  <2> QED BY <2>2, <2>4 DEF ToSet
<1>5. PICK low1 : low1 = {id[2] : id \in IF cut THEN ToSet(items) ELSE seen}
  OBVIOUS
<1>6. PICK high1 : high1 = IF cut THEN low1 ELSE {LastOf(id) : id \in seen}
  OBVIOUS
<1>7. IsFiniteSet(low1) /\ low1 \in SUBSET Nat
  <2>1. PICK from : from = IF cut THEN ToSet(items) ELSE seen
    OBVIOUS
  <2>2. IsFiniteSet(from) /\ \A id \in from : id[2] \in Nat
    BY <1>3, <1>4, <2>1 DEF IdSet
  <2>3. IsFiniteSet({id[2] : id \in from})
    <3> DEFINE f == [id \in from |-> id[2]]
    <3>1. f = [x \in from |-> f[x]] /\ {f[x] : x \in from} = {id[2] : id \in from}
      OBVIOUS
    <3> HIDE DEF f
    <3>2. IsFiniteSet({f[x] : x \in from})
      BY <2>2, <3>1, Image
    <3> QED BY <3>1, <3>2
  <2> QED BY <1>5, <2>1, <2>2, <2>3
<1>8. IsFiniteSet(high1) /\ high1 \in SUBSET Nat
  <2>1. IsFiniteSet({LastOf(id) : id \in seen})
    <3> DEFINE f == [id \in seen |-> LastOf(id)]
    <3>1. f = [x \in seen |-> f[x]] /\ {f[x] : x \in seen} = {LastOf(id) : id \in seen}
      OBVIOUS
    <3> HIDE DEF f
    <3>2. IsFiniteSet({f[x] : x \in seen})
      BY <1>3, <3>1, Image
    <3> QED BY <3>1, <3>2
  <2> QED BY <1>3, <1>6, <1>7, <2>1
<1>9. low1 # {} => high1 # {}
  BY <1>5, <1>6
<1>10. NextAnchor(q, items, seen, cut) =
         CASE low1 = {}            -> Nowhere
           [] low1 # {} /\ q.desc  -> Min(low1) - 1
           [] low1 # {} /\ ~q.desc -> Max(high1) + 1
  BY <1>5, <1>6 DEF NextAnchor
<1>11. CASE low1 = {}
  BY <1>2, <1>10, <1>11
<1>12. CASE low1 # {} /\ q.desc
  <2>1. Min(low1) - 1 \in Int
    BY <1>7, <1>12, Extremes
  <2> QED BY <1>2, <1>10, <1>12, <2>1
<1>13. CASE low1 # {} /\ ~q.desc
  <2>1. Max(high1) + 1 \in Int
    BY <1>8, <1>9, <1>13, Extremes
  <2> QED BY <1>2, <1>10, <1>13, <2>1
<1> QED BY <1>11, <1>12, <1>13

LEMMA NextIsInt ==
  ASSUME PagesTypeInv, NextOf # Nowhere
  PROVE  NextOf \in Int
<1>1. PICK offsets : offsets = {row.o : row \in ToSet(rows)}
  OBVIOUS
<1>2. NextOf =
        CASE anchor # Nowhere -> anchor
          [] anchor = Nowhere /\ offsets = {} -> Nowhere
          [] anchor = Nowhere /\ offsets # {} -> IF query.desc THEN Min(offsets) - 1 ELSE Max(offsets) + 1
  BY <1>1 DEF NextOf
<1>3. IsFiniteSet(offsets) /\ offsets \in SUBSET Nat
  <2>1. DOMAIN rows = 1 .. Len(rows) /\ Len(rows) \in Nat /\ \A i \in 1 .. Len(rows) : rows[i].o \in Nat
    <3>1. rows \in Seq(RowSet)
      BY DEF PagesTypeInv
    <3>2. DOMAIN rows = 1 .. Len(rows) /\ Len(rows) \in Nat /\ \A i \in 1 .. Len(rows) : rows[i] \in RowSet
      BY <3>1, LenProperties, ElementOfSeq
    <3> QED BY <3>2 DEF RowSet
  <2>2. IsFiniteSet({rows[i] : i \in 1 .. Len(rows)})
    <3>1. IsFiniteSet(1 .. Len(rows))
      BY <2>1, FS_Interval
    <3>2. rows = [i \in 1 .. Len(rows) |-> rows[i]]
      BY DEF PagesTypeInv
    <3> QED BY <3>1, <3>2, Image
  <2>3. ToSet(rows) = {rows[i] : i \in 1 .. Len(rows)}
    BY <2>1 DEF ToSet
  <2>4. PICK R : R = ToSet(rows)
    OBVIOUS
  <2>5. IsFiniteSet({row.o : row \in R})
    <3> DEFINE f == [row \in R |-> row.o]
    <3>1. f = [x \in R |-> f[x]] /\ {f[x] : x \in R} = {row.o : row \in R}
      OBVIOUS
    <3> HIDE DEF f
    <3>2. IsFiniteSet(R)
      BY <2>2, <2>3, <2>4
    <3>3. IsFiniteSet({f[x] : x \in R})
      BY <3>1, <3>2, Image
    <3> QED BY <3>1, <3>3
  <2>6. \A row \in R : row.o \in Nat
    BY <2>1, <2>3, <2>4
  <2> QED BY <1>1, <2>4, <2>5, <2>6
<1>4. anchor \in Int \cup {Nowhere}
  BY DEF PagesTypeInv
<1>5. offsets # {} => Min(offsets) - 1 \in Int /\ Max(offsets) + 1 \in Int
  BY <1>3, Extremes
<1> QED BY <1>2, <1>4, <1>5

\* Rows pushed are of the store or of the page.
LEMMA PushedRowsOK ==
  ASSUME PagesTypeInv, NEW ids, NEW q, ItemsOK(ids, q), NEW w \in Nat \ {0}, w <= window,
         w = window => q.partitions \subseteq query.partitions,
         NEW st, st = Pushed(rows, ids, w)
  PROVE  /\ st \in Seq(RowSet)
         /\ \A i \in 1 .. Len(st) : /\ 1 <= st[i].window /\ st[i].window <= window /\ st[i].o < high[st[i].p]
                                    /\ st[i].window = window => st[i].p \in query.partitions
         /\ \A i \in 1 .. Len(st) : phase # "done" /\ st[i].window = window => w = window
<1>1. ids \in Seq(IdSet) /\ \A i \in 1 .. Len(ids) : ids[i][1] \in q.partitions /\ ids[i][2] < high[ids[i][1]]
  BY DEF ItemsOK
<1>2. rows \in Seq(RowSet) /\ window \in Nat \ {0}
      /\ \A i \in 1 .. Len(rows) : /\ 1 <= rows[i].window /\ rows[i].window <= window /\ rows[i].o < high[rows[i].p]
                                   /\ rows[i].window = window => rows[i].p \in query.partitions /\ phase = "done"
  BY DEF PagesTypeInv, RowOK
<1>3. /\ st \in Seq(RowSet)
      /\ \A i \in 1 .. Len(st) : \/ \E j \in 1 .. Len(rows) : st[i] = rows[j]
                                 \/ \E j \in 1 .. Len(ids) : st[i] = Row(ids[j], w)
  BY <1>1, <1>2, PushedRows
<1>4. ASSUME NEW i \in 1 .. Len(st)
      PROVE  /\ 1 <= st[i].window /\ st[i].window <= window /\ st[i].o < high[st[i].p]
             /\ st[i].window = window => st[i].p \in query.partitions
             /\ phase # "done" /\ st[i].window = window => w = window
  <2>1. CASE \E j \in 1 .. Len(rows) : st[i] = rows[j]
    BY <1>2, <2>1
  <2>2. CASE \E j \in 1 .. Len(ids) : st[i] = Row(ids[j], w)
    <3>1. PICK j \in 1 .. Len(ids) : st[i] = Row(ids[j], w)
      BY <2>2
    <3>2. st[i].window = w /\ st[i].o = ids[j][2] /\ st[i].p = ids[j][1]
      BY <3>1 DEF Row
    <3>3. ids[j][1] \in q.partitions /\ ids[j][2] < high[ids[j][1]]
      BY <1>1
    <3> QED BY <3>2, <3>3
  <2> QED BY <1>3, <2>1, <2>2
<1> QED BY <1>3, <1>4

LEMMA PageItems ==
  ASSUME LogOK, NEW q, NEW read, NEW stop, NEW all, Made(q, read, stop, all)
  PROVE  ItemsOK(Cut(all), q)
<1>1. PICK c : c = Cut(all)
  OBVIOUS
<1>2. /\ \A id \in Found(q, read) : id[1] \in q.partitions /\ id[2] < high[id[1]]
      /\ all \in Seq(IdSet) /\ Len(all) \in Nat
      /\ \A i \in 1 .. Len(all) : all[i] \in Found(q, read)
  BY FoundIs
<1>3. c \in Seq(IdSet) /\ Len(c) \in Nat /\ Len(c) <= Len(all) /\ \A i \in 1 .. Len(c) : c[i] = all[i]
  BY <1>1, <1>2, CutIs
<1>4. \A i \in 1 .. Len(c) : i \in 1 .. Len(all)
  BY <1>2, <1>3
<1>5. \A i \in 1 .. Len(c) : c[i][1] \in q.partitions /\ c[i][2] < high[c[i][1]]
  BY <1>2, <1>3, <1>4
<1> QED BY <1>1, <1>3, <1>5 DEF ItemsOK

\* The reads and the order of a page, from the choice the action makes.
LEMMA MadeIs ==
  ASSUME LogOK, NEW q \in QuerySet, NEW read \in Reads(q), NEW all \in Sorted(q, Found(q, read))
  PROVE  \E stop : Made(q, read, stop, all)
<1>1. q.partitions \subseteq Partitions /\ q.desc \in BOOLEAN /\ q.from \in Int
  BY DEF QuerySet
<1>2. PICK stop : IsRead(q, read, stop)
  BY <1>1, ReadsAre
<1> QED BY <1>1, <1>2 DEF Made

LEMMA InitType == PagesInit => PagesTypeInv
<1> SUFFICES ASSUME PagesInit PROVE PagesTypeInv
  OBVIOUS
<1>1. LogOK
  <2>1. low \in [Partitions -> Nat] /\ high = Written /\ high \in [Partitions -> Nat]
    BY PagesAssumption DEF PagesInit
  <2>2. \A p \in Partitions : Written[p] <= Len(Log[p]) /\ Whole(p, Written[p])
    BY PagesAssumption DEF Whole, Kind
  <2> QED BY <2>1, <2>2 DEF LogOK
<1>2. query \in QuerySet
  BY PagesAssumption DEF PagesInit, QuerySet
<1>3. rows \in Seq(RowSet) /\ Len(rows) = 0
  BY DEF PagesInit
<1>4. \A i \in 1 .. Len(rows) : RowOK(rows[i])
  BY <1>3
<1>5. window \in Nat \ {0} /\ exhausted \in BOOLEAN /\ ~exhausted /\ anchor = Nowhere /\ pages = {}
  <2>1. window = 1 /\ exhausted = FALSE /\ anchor = Nowhere /\ pages = {}
    BY DEF PagesInit
  <2>2. window \in Nat \ {0}
    BY <2>1
  <2> QED BY <2>1, <2>2
<1> QED BY <1>1, <1>2, <1>3, <1>4, <1>5 DEF PagesTypeInv, OnePage

LEMMA OpenType ==
  ASSUME PagesTypeInv, NEW q \in Queries, Open(q)
  PROVE  PagesTypeInv'
<1>1. /\ window' = window + 1 /\ query' = q /\ phase' = "reading" /\ rows' = <<>> /\ anchor' = Nowhere
      /\ exhausted' = FALSE /\ low' = low /\ high' = high /\ pages' = pages
  BY DEF Open, logVars
<1>2. LogOK' /\ window' \in Nat \ {0} /\ window < window' /\ window \in Nat
  BY <1>1 DEF PagesTypeInv, LogOK, Whole
<1>3. query' \in QuerySet
  BY <1>1, PagesAssumption DEF QuerySet
<1>4. rows' \in Seq(RowSet) /\ Len(rows') = 0
  BY <1>1
<1>5. \A page \in pages : page.window # window' /\ PageOK(page) /\ page.window \in Nat /\ page.window <= window
  BY <1>2 DEF PagesTypeInv, PageOK
<1>6. \A page \in pages' : PageOK(page)'
  <2> SUFFICES ASSUME NEW page \in pages PROVE PageOK(page)'
    BY <1>1
  <2>1. page.window <= window' /\ page.window # window' /\ PageOK(page)
    BY <1>2, <1>5
  <2> QED BY <1>1, <2>1 DEF PageOK, ItemsOK
<1>7. OnePage'
  BY <1>1, <1>5 DEF OnePage
<1>8. \A i \in 1 .. Len(rows') : RowOK(rows[i])'
  BY <1>4
<1> QED BY <1>1, <1>2, <1>3, <1>4, <1>6, <1>7, <1>8 DEF PagesTypeInv

LEMMA StreamType ==
  ASSUME PagesTypeInv, StreamEnds
  PROVE  PagesTypeInv'
<1>0. PICK read \in Reads(query) : \E all \in Sorted(query, Found(query, read)) :
        rows' = Pushed(rows, Cut(all), window)
  BY DEF StreamEnds
<1>1. PICK all \in Sorted(query, Found(query, read)) : rows' = Pushed(rows, Cut(all), window)
  BY <1>0
<1>2. /\ phase = "reading" /\ phase' = "done" /\ window' = window /\ query' = query /\ anchor' = anchor
      /\ exhausted' = exhausted /\ low' = low /\ high' = high /\ pages' = pages
  BY DEF StreamEnds, logVars
<1>3. LogOK /\ query \in QuerySet /\ window \in Nat \ {0} /\ exhausted \in BOOLEAN /\ OnePage
      /\ (\A page \in pages : PageOK(page)) /\ anchor = Nowhere /\ ~exhausted
  BY <1>2 DEF PagesTypeInv
<1>4. PICK stop : Made(query, read, stop, all)
  BY <1>3, MadeIs
<1>5. PICK ids : ids = Cut(all) /\ ItemsOK(ids, query)
  BY <1>3, <1>4, PageItems
<1>6. /\ rows' \in Seq(RowSet)
      /\ \A i \in 1 .. Len(rows') : /\ 1 <= rows'[i].window /\ rows'[i].window <= window /\ rows'[i].o < high[rows'[i].p]
                                    /\ rows'[i].window = window => rows'[i].p \in query.partitions
  <2>1. window \in Nat \ {0} /\ window <= window
    BY <1>3
  <2> QED BY <1>1, <1>5, <2>1, PushedRowsOK
<1>7. \A i \in 1 .. Len(rows') : RowOK(rows[i])'
  BY <1>2, <1>6 DEF RowOK
<1>8. LogOK'
  BY <1>2, <1>3 DEF LogOK, Whole
<1>9. \A page \in pages' : PageOK(page)'
  <2> SUFFICES ASSUME NEW page \in pages PROVE PageOK(page)'
    BY <1>2
  <2>1. PageOK(page)
    BY <1>3
  <2> QED BY <1>2, <2>1 DEF PageOK, ItemsOK
<1>10. OnePage'
  BY <1>2, <1>3 DEF OnePage
<1> QED BY <1>2, <1>3, <1>6, <1>7, <1>8, <1>9, <1>10 DEF PagesTypeInv

LEMMA MoreType ==
  ASSUME PagesTypeInv, LoadMore
  PROVE  PagesTypeInv'
<1>1. PICK new : new = [window |-> window, query |-> PageQuery(NextOf), reply |-> Nowhere]
  OBVIOUS
<1>2. /\ phase = "done" /\ ~exhausted /\ (\A page \in pages : page.window # window)
      /\ pages' = pages \cup {new}
      /\ phase' = phase /\ window' = window /\ query' = query /\ anchor' = anchor /\ rows' = rows
      /\ exhausted' = exhausted /\ low' = low /\ high' = high
  BY <1>1 DEF LoadMore, logVars, readerVars
<1>3. LogOK /\ query \in QuerySet /\ window \in Nat \ {0} /\ exhausted \in BOOLEAN
      /\ (\A page \in pages : PageOK(page)) /\ rows \in Seq(RowSet) /\ \A i \in 1 .. Len(rows) : RowOK(rows[i])
  BY DEF PagesTypeInv
<1>4. LogOK' /\ query' \in QuerySet /\ \A i \in 1 .. Len(rows') : RowOK(rows[i])'
  BY <1>2, <1>3 DEF LogOK, Whole, RowOK
<1>5. ASSUME NEW page \in pages PROVE PageOK(page)'
  <2>1. PageOK(page)
    BY <1>3
  <2> QED BY <1>2, <2>1 DEF PageOK, ItemsOK
<1>6. NextOf \in Int
  <2>1. NextOf # Nowhere
    BY DEF LoadMore
  <2> QED BY <2>1, NextIsInt
<1>7. PageOK(new)'
  <2>1. PageQuery(NextOf) \in QuerySet /\ PageQuery(NextOf).desc = query.desc
        /\ PageQuery(NextOf).partitions = query.partitions
    BY <1>3, <1>6 DEF PageQuery, QuerySet
  <2> QED BY <1>1, <1>2, <1>3, <2>1 DEF PageOK
<1>8. OnePage'
  BY <1>1, <1>2 DEF OnePage
<1> QED BY <1>2, <1>3, <1>4, <1>5, <1>7, <1>8 DEF PagesTypeInv

LEMMA ReplyType ==
  ASSUME PagesTypeInv, NEW page \in pages, Reply(page)
  PROVE  PagesTypeInv'
<1>0. PICK read \in Reads(page.query) :
        \E all \in Sorted(page.query, Found(page.query, read)), below \in MoreBelow(page.query, read) :
          pages' = (pages \ {page}) \cup {[page EXCEPT !.reply = Page(page.query, read, all, below)]}
  BY DEF Reply
<1>1. PICK all \in Sorted(page.query, Found(page.query, read)), below \in MoreBelow(page.query, read) :
        pages' = (pages \ {page}) \cup {[page EXCEPT !.reply = Page(page.query, read, all, below)]}
  BY <1>0
<1>2. /\ phase' = phase /\ window' = window /\ query' = query /\ anchor' = anchor /\ rows' = rows
      /\ exhausted' = exhausted /\ low' = low /\ high' = high
  BY DEF Reply, logVars, readerVars
<1>3. LogOK /\ query \in QuerySet /\ window \in Nat \ {0} /\ exhausted \in BOOLEAN
      /\ (\A pg \in pages : PageOK(pg)) /\ rows \in Seq(RowSet) /\ (\A i \in 1 .. Len(rows) : RowOK(rows[i])) /\ OnePage
  BY DEF PagesTypeInv
<1>4. LogOK' /\ query' \in QuerySet /\ \A i \in 1 .. Len(rows') : RowOK(rows[i])'
  BY <1>2, <1>3 DEF LogOK, Whole, RowOK
<1>5. ASSUME NEW pg \in pages PROVE PageOK(pg)'
  <2>1. PageOK(pg)
    BY <1>3
  <2> QED BY <1>2, <2>1 DEF PageOK, ItemsOK
<1>6. PICK reply, new : reply = Page(page.query, read, all, below) /\ new = [page EXCEPT !.reply = reply]
  OBVIOUS
<1>7. PageOK(page) /\ page = [window |-> page.window, query |-> page.query, reply |-> page.reply] /\ page.query \in QuerySet
  BY <1>3 DEF PageOK
<1>8. new.window = page.window /\ new.query = page.query /\ new.reply = reply
      /\ new = [window |-> new.window, query |-> new.query, reply |-> new.reply]
  BY <1>6, <1>7
<1>9. ItemsOK(reply.items, page.query) /\ reply.next \in Int \cup {Nowhere}
  <2>1. PICK stop : Made(page.query, read, stop, all)
    BY <1>3, <1>7, MadeIs
  <2>2. reply.items = Cut(all)
    BY <1>6 DEF Page
  <2>3. ItemsOK(Cut(all), page.query)
    BY <1>3, <2>1, PageItems
  <2>4. reply.next \in Int \cup {Nowhere}
    BY <1>3, <1>6, <2>1, PageNext
  <2> QED BY <2>2, <2>3, <2>4
<1>10. PageOK(new)'
  BY <1>2, <1>7, <1>8, <1>9 DEF PageOK, ItemsOK
<1>11. pages' = (pages \ {page}) \cup {new}
  BY <1>1, <1>6
<1>12. OnePage'
  BY <1>2, <1>3, <1>8, <1>11 DEF OnePage
<1> QED BY <1>2, <1>3, <1>4, <1>5, <1>10, <1>11, <1>12 DEF PagesTypeInv

LEMMA ArriveType ==
  ASSUME PagesTypeInv, NEW page \in pages, Arrive(page)
  PROVE  PagesTypeInv'
<1>1. /\ page.reply # Nowhere /\ pages' = pages \ {page} /\ rows' = Pushed(rows, page.reply.items, page.window)
      /\ IF page.window = window
         THEN /\ anchor' = page.reply.next
              /\ exhausted' = (~page.reply.more \/ page.reply.next = Nowhere)
         ELSE anchor' = anchor /\ exhausted' = exhausted
      /\ phase' = phase /\ window' = window /\ query' = query /\ low' = low /\ high' = high
  BY DEF Arrive, logVars
<1>2. LogOK /\ query \in QuerySet /\ window \in Nat \ {0} /\ exhausted \in BOOLEAN /\ OnePage
      /\ (\A pg \in pages : PageOK(pg)) /\ anchor \in Int \cup {Nowhere} /\ (phase # "done" => anchor = Nowhere /\ ~exhausted)
  BY DEF PagesTypeInv
<1>3. /\ page.window \in Nat \ {0} /\ page.window <= window /\ page.query \in QuerySet
      /\ ItemsOK(page.reply.items, page.query) /\ page.reply.next \in Int \cup {Nowhere}
      /\ page.window = window => phase = "done" /\ page.query.partitions \subseteq query.partitions
  BY <1>1, <1>2 DEF PageOK
<1>4. PICK ids, w : ids = page.reply.items /\ w = page.window
  OBVIOUS
<1>5. /\ rows' \in Seq(RowSet)
      /\ \A i \in 1 .. Len(rows') : /\ 1 <= rows'[i].window /\ rows'[i].window <= window /\ rows'[i].o < high[rows'[i].p]
                                    /\ rows'[i].window = window => rows'[i].p \in query.partitions
      /\ \A i \in 1 .. Len(rows') : phase # "done" /\ rows'[i].window = window => w = window
  BY <1>1, <1>3, <1>4, PushedRowsOK
<1>6. \A i \in 1 .. Len(rows') : RowOK(rows[i])'
  BY <1>1, <1>3, <1>4, <1>5 DEF RowOK
<1>7. LogOK'
  BY <1>1, <1>2 DEF LogOK, Whole
<1>8. exhausted' \in BOOLEAN /\ anchor' \in Int \cup {Nowhere}
  <2>1. CASE page.window = window
    BY <1>1, <1>3, <2>1
  <2>2. CASE page.window # window
    BY <1>1, <1>2, <2>2
  <2> QED BY <2>1, <2>2
<1>9. ASSUME NEW pg \in pages' PROVE PageOK(pg)'
  <2>1. PageOK(pg) /\ pg # page /\ pg \in pages
    BY <1>1, <1>2
  <2>2. pg.window = window => page.window # window
    BY <1>2, <2>1 DEF OnePage
  <2>3. pg.window = window => exhausted' = exhausted
    BY <1>1, <2>2
  <2> QED BY <1>1, <2>1, <2>3 DEF PageOK, ItemsOK
<1>10. OnePage'
  BY <1>1, <1>2 DEF OnePage
<1>11. phase' # "done" => anchor' = Nowhere /\ ~exhausted'
  <2> SUFFICES ASSUME phase # "done" PROVE anchor' = Nowhere /\ ~exhausted'
    BY <1>1
  <2>1. page.window # window
    BY <1>3
  <2> QED BY <1>1, <1>2, <2>1
<1> QED BY <1>1, <1>2, <1>5, <1>6, <1>7, <1>8, <1>9, <1>10, <1>11 DEF PagesTypeInv

LEMMA FailType ==
  ASSUME PagesTypeInv, NEW page \in pages, Fail(page)
  PROVE  PagesTypeInv'
<1>1. /\ pages' = pages \ {page} /\ rows' = rows /\ anchor' = anchor /\ exhausted' = exhausted
      /\ phase' = phase /\ window' = window /\ query' = query /\ low' = low /\ high' = high
  BY DEF Fail, logVars, readerVars
<1>2. LogOK /\ OnePage /\ (\A pg \in pages : PageOK(pg)) /\ \A i \in 1 .. Len(rows) : RowOK(rows[i])
  BY DEF PagesTypeInv
<1>3. LogOK' /\ \A i \in 1 .. Len(rows') : RowOK(rows[i])'
  BY <1>1, <1>2 DEF LogOK, Whole, RowOK
<1>4. \A pg \in pages' : PageOK(pg)'
  BY <1>1, <1>2 DEF PageOK, ItemsOK
<1>5. OnePage'
  BY <1>1, <1>2 DEF OnePage
<1> QED BY <1>1, <1>3, <1>4, <1>5 DEF PagesTypeInv

\* The log only moves on.
LEMMA LogMoves ==
  ASSUME LogOK, NEW p \in Partitions, Grow(p) \/ Retain(p)
  PROVE  /\ LogOK' /\ \A r \in Partitions : low[r] <= low'[r] /\ high[r] <= high'[r]
         /\ UNCHANGED <<readerVars, pages>>
<1>1. low \in [Partitions -> Nat] /\ high \in [Partitions -> Nat] /\ (\A r \in Partitions : high[r] <= Len(Log[r]) /\ Whole(r, high[r]))
      /\ Len(Log[p]) \in Nat
  BY Entries DEF LogOK
<1>2. CASE Grow(p)
  <2> DEFINE S == {o \in high[p] + 1 .. Len(Log[p]) : Whole(p, o)}
  <2>1. high[p] < Len(Log[p]) /\ high' = [high EXCEPT ![p] = Min(S)] /\ low' = low /\ UNCHANGED <<readerVars, pages>>
    BY <1>2 DEF Grow
  <2>2. S \in SUBSET Nat
    BY <1>1
  <2>3. Len(Log[p]) \in S
    <3>1. Whole(p, Len(Log[p]))
      BY <1>1 DEF Whole
    <3> QED BY <1>1, <2>1, <3>1
  <2>4. \A o \in S : o \in Nat /\ high[p] <= o /\ o <= Len(Log[p]) /\ Whole(p, o)
    BY <1>1
  <2> HIDE DEF S
  <2>5. PICK m : m = Min(S)
    OBVIOUS
  <2>6. m \in S
    BY <2>2, <2>3, <2>5, MinIs
  <2>7. high' = [high EXCEPT ![p] = m]
    BY <2>1, <2>5
  <2>8. \A r \in Partitions : high[r] <= high'[r] /\ high'[r] <= Len(Log[r]) /\ Whole(r, high'[r])
    BY <1>1, <2>4, <2>6, <2>7
  <2>9. high' \in [Partitions -> Nat]
    BY <1>1, <2>4, <2>6, <2>7
  <2>10. \A r \in Partitions : low[r] <= low'[r]
    BY <1>1, <2>1
  <2>11. LogOK'
    BY <1>1, <2>1, <2>8, <2>9 DEF LogOK, Whole
  <2> QED BY <2>1, <2>8, <2>10, <2>11
<1>3. CASE Retain(p)
  <2> DEFINE S == {o \in low[p] + 1 .. high[p] : Whole(p, o)}
  <2>1. low[p] < high[p] /\ low' = [low EXCEPT ![p] = Min(S)] /\ high' = high /\ UNCHANGED <<readerVars, pages>>
    BY <1>3 DEF Retain
  <2>2. S \in SUBSET Nat
    BY <1>1
  <2>3. high[p] \in S
    BY <1>1, <2>1
  <2>4. \A o \in S : o \in Nat /\ low[p] <= o
    BY <1>1
  <2> HIDE DEF S
  <2>5. PICK m : m = Min(S)
    OBVIOUS
  <2>6. m \in S
    BY <2>2, <2>3, <2>5, MinIs
  <2>7. low' = [low EXCEPT ![p] = m]
    BY <2>1, <2>5
  <2>8. \A r \in Partitions : low[r] <= low'[r] /\ high[r] <= high'[r]
    BY <1>1, <2>1, <2>4, <2>6, <2>7
  <2>9. low' \in [Partitions -> Nat]
    BY <1>1, <2>4, <2>6, <2>7
  <2>10. LogOK'
    BY <1>1, <2>1, <2>9 DEF LogOK, Whole
  <2> QED BY <2>1, <2>8, <2>10
<1> QED BY <1>2, <1>3

LEMMA LogType ==
  ASSUME PagesTypeInv, NEW p \in Partitions, Grow(p) \/ Retain(p)
  PROVE  PagesTypeInv'
<1>1. LogOK /\ OnePage /\ (\A pg \in pages : PageOK(pg)) /\ rows \in Seq(RowSet) /\ \A i \in 1 .. Len(rows) : RowOK(rows[i])
  BY DEF PagesTypeInv
<1>2. LogOK' /\ (\A r \in Partitions : high[r] <= high'[r]) /\ UNCHANGED <<readerVars, pages>>
  BY <1>1, LogMoves
<1>3. /\ pages' = pages /\ rows' = rows /\ anchor' = anchor /\ exhausted' = exhausted
      /\ phase' = phase /\ window' = window /\ query' = query
  BY <1>2 DEF readerVars
<1>4. \A r \in Partitions : high[r] \in Nat /\ high'[r] \in Nat
  BY <1>1, <1>2 DEF LogOK
<1>5. \A r \in Partitions, o \in Nat : o < high[r] => o < high'[r]
  BY <1>2, <1>4
<1>6. ASSUME NEW i \in 1 .. Len(rows') PROVE RowOK(rows[i])'
  <2>1. rows[i] \in RowSet /\ RowOK(rows[i])
    BY <1>1, <1>3, ElementOfSeq
  <2>2. rows[i].p \in Partitions /\ rows[i].o \in Nat
    BY <2>1 DEF RowSet
  <2> QED BY <1>3, <1>5, <2>1, <2>2 DEF RowOK
<1>7. ASSUME NEW pg \in pages PROVE PageOK(pg)'
  <2>1. PageOK(pg)
    BY <1>1
  <2>2. ASSUME NEW items, NEW q, ItemsOK(items, q) PROVE ItemsOK(items, q)'
    <3>1. items \in Seq(IdSet) /\ \A i \in 1 .. Len(items) : items[i][1] \in q.partitions /\ items[i][2] < high[items[i][1]]
      BY <2>2 DEF ItemsOK
    <3>2. \A i \in 1 .. Len(items) : items[i] \in IdSet
      BY <3>1, ElementOfSeq
    <3>3. \A i \in 1 .. Len(items) : items[i][1] \in Partitions /\ items[i][2] \in Nat
      BY <3>2 DEF IdSet
    <3>4. \A i \in 1 .. Len(items) : items[i][2] < high'[items[i][1]]
      BY <1>5, <3>1, <3>3
    <3> QED BY <3>1, <3>4 DEF ItemsOK
  <2>3. pg.reply # Nowhere => ItemsOK(pg.reply.items, pg.query)'
    BY <2>1, <2>2 DEF PageOK
  <2> QED BY <1>3, <2>1, <2>3 DEF PageOK
<1>8. OnePage'
  BY <1>1, <1>3 DEF OnePage
<1> QED BY <1>2, <1>3, <1>6, <1>7, <1>8 DEF PagesTypeInv

-----------------------------------------------------------------------------
(***************************************************************************)
(* The walk                                                                *)
(***************************************************************************)
CleanAt(store, w, desc) ==
  /\ \A i \in 1 .. Len(store) : store[i].window = w
  /\ w = 1 \/ Len(store) < Cap
  /\ desc \/ Len(store) < Cap

LEMMA CleanIs ==
  ASSUME rows \in Seq(RowSet)
  PROVE  Clean <=> CleanAt(rows, window, query.desc)
<1>1. DOMAIN rows = 1 .. Len(rows)
  BY LenProperties
<1>2. (\A row \in ToSet(rows) : ~Stray(row)) <=> \A i \in 1 .. Len(rows) : rows[i].window = window
  BY <1>1 DEF ToSet, Stray
<1> QED BY <1>2 DEF Clean, OwnRows, CutInOrder, CleanAt

LEMMA CleanIsNext ==
  ASSUME rows' \in Seq(RowSet)
  PROVE  Clean' <=> CleanAt(rows', window', query'.desc)
<1>1. DOMAIN rows' = 1 .. Len(rows')
  BY LenProperties
<1>2. (\A row \in ToSet(rows') : row.window = window') <=> \A i \in 1 .. Len(rows') : rows'[i].window = window'
  BY <1>1 DEF ToSet
<1>3. (\A row \in ToSet(rows) : ~Stray(row))' <=> \A row \in ToSet(rows') : row.window = window'
  BY DEF ToSet, Stray
<1> QED BY <1>2, <1>3 DEF Clean, OwnRows, CutInOrder, CleanAt

\* A push that leaves a store clean was onto a clean one, and of the window's
\* own page unless it changed nothing.
LEMMA CleanPush ==
  ASSUME NEW store \in Seq(RowSet), NEW ids \in Seq(IdSet), NEW w \in Nat \ {0},
         NEW st, st = Pushed(store, ids, w), NEW win \in Nat \ {0}, w <= win,
         \A i \in 1 .. Len(store) : 1 <= store[i].window /\ store[i].window <= win,
         NEW desc, CleanAt(st, win, desc)
  PROVE  CleanAt(store, win, desc) /\ (w # win => st = store)
<1>1. /\ st \in Seq(RowSet)
      /\ Len(st) < Cap =>
              /\ Len(store) <= Len(st) /\ \A i \in 1 .. Len(store) : st[i] = store[i]
              /\ (\A i \in 1 .. Len(st) : st[i].window # w) => st = store
  BY PushedRows
<1>2. Len(st) \in Nat /\ Len(store) \in Nat /\ Cap \in Nat /\ \A i \in 1 .. Len(store) : store[i].window \in Nat
  <2>1. \A i \in 1 .. Len(store) : store[i] \in RowSet
    BY ElementOfSeq
  <2> QED BY <1>1, <2>1, LenProperties, PagesAssumption DEF RowSet
<1>3. /\ \A i \in 1 .. Len(st) : st[i].window = win
      /\ win = 1 \/ Len(st) < Cap
      /\ desc \/ Len(st) < Cap
  BY DEF CleanAt
<1>4. Len(st) < Cap => Len(store) < Cap
  BY <1>1, <1>2
<1>5. \A i \in 1 .. Len(store) : store[i].window = win
  <2> SUFFICES ASSUME NEW i \in 1 .. Len(store) PROVE store[i].window = win
    OBVIOUS
  <2>1. CASE win = 1
    <3>1. 1 <= store[i].window /\ store[i].window <= win /\ store[i].window \in Nat
      BY <1>2
    <3> QED BY <2>1, <3>1
  <2>2. CASE Len(st) < Cap
    <3>1. st[i] = store[i] /\ i \in 1 .. Len(st)
      BY <1>1, <1>2, <2>2
    <3> QED BY <1>3, <3>1
  <2> QED BY <1>3, <2>1, <2>2
<1>6. ASSUME w # win PROVE st = store
  <2>1. win # 1
    BY <1>6
  <2>2. Len(st) < Cap /\ \A i \in 1 .. Len(st) : st[i].window # w
    BY <1>3, <1>6, <2>1
  <2> QED BY <1>1, <2>2
<1> QED BY <1>3, <1>4, <1>5, <1>6 DEF CleanAt

LEMMA Shown ==
  ASSUME PagesTypeInv, NEW p
  PROVE  /\ Shows(rows, p) \in SUBSET Nat
         /\ \A a \in Shows(rows, p) : p \in Partitions /\ a < high[p]
         /\ Clean => \A a \in Shows(rows, p) : p \in query.partitions /\ phase = "done"
<1>1. rows \in Seq(RowSet) /\ \A i \in 1 .. Len(rows) : rows[i] \in RowSet /\ RowOK(rows[i])
  BY ElementOfSeq DEF PagesTypeInv
<1>2. Clean => \A i \in 1 .. Len(rows) : rows[i].window = window
  BY <1>1, CleanIs DEF CleanAt
<1>3. Shows(rows, p) \in SUBSET Nat
  BY DEF Shows
<1>4. ASSUME NEW a \in Shows(rows, p)
      PROVE  p \in Partitions /\ a < high[p] /\ (Clean => p \in query.partitions /\ phase = "done")
  <2>1. PICK i \in 1 .. Len(rows) : rows[i].p = p /\ rows[i].o = a
    BY <1>4 DEF Shows
  <2>2. rows[i] \in RowSet /\ RowOK(rows[i])
    BY <1>1
  <2> QED BY <1>2, <2>1, <2>2 DEF RowSet, RowOK
<1> QED BY <1>3, <1>4

\* The next page starts off the edge of the walk.
LEMMA NextEdge ==
  ASSUME PagesTypeInv, Clean, RowsWalk, EdgeWalk, Walkable(query), ~exhausted, NextOf # Nowhere,
         NEW p, query.partitions = {p}
  PROVE  /\ p \in Partitions /\ NoGap(Acc(query, p), Shows(rows, p))
         /\ Edge(query.desc, Acc(query, p), Shows(rows, p), high[p], NextOf)
<1>1. p \in Partitions /\ query.desc \in BOOLEAN /\ high[p] \in Nat
  BY DEF PagesTypeInv, QuerySet, LogOK
<1>2. NoGap(Acc(query, p), Shows(rows, p))
  BY <1>1 DEF RowsWalk, Walkable
<1>3. CASE anchor # Nowhere
  <2>1. NextOf = anchor
    BY <1>3 DEF NextOf
  <2> QED BY <1>1, <1>2, <1>3, <2>1 DEF EdgeWalk
<1>4. CASE anchor = Nowhere
  <2>1. PICK offsets : offsets = {row.o : row \in ToSet(rows)}
    OBVIOUS
  <2>2. NextOf = IF offsets = {} THEN Nowhere ELSE IF query.desc THEN Min(offsets) - 1 ELSE Max(offsets) + 1
    BY <1>4, <2>1 DEF NextOf
  <2>3. offsets = Shows(rows, p)
    <3>1. rows \in Seq(RowSet) /\ DOMAIN rows = 1 .. Len(rows) /\ \A i \in 1 .. Len(rows) : rows[i] \in RowSet /\ RowOK(rows[i])
      BY ElementOfSeq, LenProperties DEF PagesTypeInv
    <3>2. \A i \in 1 .. Len(rows) : rows[i].window = window
      BY <3>1, CleanIs DEF CleanAt
    <3>3. \A i \in 1 .. Len(rows) : rows[i].p = p /\ rows[i].o \in Nat
      BY <3>1, <3>2 DEF RowOK, RowSet
    <3>4. \A o : o \in offsets <=> \E i \in 1 .. Len(rows) : rows[i].o = o
      BY <2>1, <3>1 DEF ToSet
    <3>5. \A o : o \in Shows(rows, p) <=> \E i \in 1 .. Len(rows) : rows[i].o = o
      BY <3>3 DEF Shows
    <3> QED BY <3>4, <3>5
  <2>4. PICK S, acc, hi : S = Shows(rows, p) /\ acc = Acc(query, p) /\ hi = high[p]
    OBVIOUS
  <2>5. S \in SUBSET Nat /\ \A a \in S : a < hi
    BY <2>4, Shown
  <2>6. acc \in SUBSET Nat /\ hi \in Nat /\ NoGap(acc, S) /\ S # {}
    BY <1>1, <1>2, <2>2, <2>3, <2>4 DEF Acc
  <2>7. Edge(TRUE, acc, S, hi, Min(S) - 1) /\ Edge(FALSE, acc, S, hi, Max(S) + 1)
    BY <2>5, <2>6, EdgeOfRows
  <2>8. CASE query.desc = TRUE
    <3>1. NextOf = Min(S) - 1
      BY <2>2, <2>3, <2>4, <2>6, <2>8
    <3> QED BY <1>1, <1>2, <2>4, <2>7, <2>8, <3>1
  <2>9. CASE query.desc = FALSE
    <3>1. NextOf = Max(S) + 1
      BY <2>2, <2>3, <2>4, <2>6, <2>9
    <3> QED BY <1>1, <1>2, <2>4, <2>7, <2>9, <3>1
  <2> QED BY <1>1, <2>8, <2>9
<1> QED BY <1>3, <1>4

\* While the log stands, what the window accepts does.
LEMMA SameAcc ==
  ASSUME low' = low, high' = high, query' = query, NEW p
  PROVE  Acc(query, p)' = Acc(query, p)
BY DEF Acc, Accepts, Kind

LEMMA SameQuery ==
  ASSUME query' = query
  PROVE  (Walkable(query)' <=> Walkable(query)) /\ (Orderly(query)' <=> Orderly(query))
BY DEF Walkable, Orderly, InOrder

LEMMA InitWalk == PagesInit => WalkInv
<1> SUFFICES ASSUME PagesInit PROVE RowsWalk /\ EdgeWalk /\ PageWalk
  BY DEF WalkInv
<1>1. rows = <<>> /\ Len(rows) = 0 /\ anchor = Nowhere /\ exhausted = FALSE /\ pages = {}
  BY DEF PagesInit
<1>2. \A p : Shows(rows, p) = {}
  BY <1>1 DEF Shows
<1>3. Falls(rows)
  BY <1>1 DEF Falls
<1>4. \A p : NoGap(Acc(query, p), Shows(rows, p))
  BY <1>2 DEF NoGap
<1> QED BY <1>1, <1>3, <1>4 DEF RowsWalk, EdgeWalk, PageWalk

LEMMA OpenWalk ==
  ASSUME PagesTypeInv, NEW q \in Queries, Open(q)
  PROVE  WalkInv'
<1>1. /\ window' = window + 1 /\ rows' = <<>> /\ anchor' = Nowhere /\ exhausted' = FALSE /\ pages' = pages
  BY DEF Open
<1>2. Len(rows') = 0
  BY <1>1
<1>3. \A p : Shows(rows', p) = {}
  BY <1>2 DEF Shows
<1>4. Falls(rows')
  BY <1>2 DEF Falls
<1>5. \A page \in pages' : page.window # window'
  BY <1>1 DEF PagesTypeInv, PageOK
<1>6. RowsWalk'
  <2>1. \A p \in Partitions : NoGap(Acc(query, p), Shows(rows, p))'
    BY <1>3 DEF NoGap
  <2>2. Falls(rows)'
    BY <1>4
  <2> QED BY <2>1, <2>2 DEF RowsWalk
<1>7. EdgeWalk'
  BY <1>1 DEF EdgeWalk
<1>8. PageWalk'
  BY <1>5 DEF PageWalk
<1> QED BY <1>6, <1>7, <1>8 DEF WalkInv

\* A step that leaves the rows, the anchor and the log leaves the walk.
StandsStill ==
  /\ rows' = rows /\ anchor' = anchor /\ exhausted' = exhausted /\ window' = window /\ query' = query
  /\ low' = low /\ high' = high

LEMMA StillWalk ==
  ASSUME StandsStill
  PROVE  /\ Clean' <=> Clean
         /\ RowsWalk => RowsWalk'
         /\ EdgeWalk => EdgeWalk'
         /\ NextOf' = NextOf
         /\ \A page, p : Continues(page, p) => Continues(page, p)'
<1>1. /\ rows' = rows /\ anchor' = anchor /\ exhausted' = exhausted /\ window' = window /\ query' = query
      /\ low' = low /\ high' = high
  BY DEF StandsStill
<1>2. \A p : Acc(query, p)' = Acc(query, p)
  BY <1>1, SameAcc
<1>3. (Walkable(query)' <=> Walkable(query)) /\ (Orderly(query)' <=> Orderly(query))
  BY <1>1, SameQuery
<1>4. Clean' <=> Clean
  BY <1>1 DEF Clean, OwnRows, CutInOrder, Stray
<1>5. ASSUME RowsWalk PROVE RowsWalk'
  <2>1. FirstPage' <=> FirstPage
    BY <1>1 DEF FirstPage
  <2>2. Falls(rows)' <=> Falls(rows)
    BY <1>1 DEF Falls
  <2>3. \A p : NoGap(Acc(query, p), Shows(rows, p))' <=> NoGap(Acc(query, p), Shows(rows, p))
    <3> SUFFICES ASSUME NEW p PROVE NoGap(Acc(query, p), Shows(rows, p))' <=> NoGap(Acc(query, p), Shows(rows, p))
      OBVIOUS
    <3>1. Shows(rows, p)' = Shows(rows, p)
      BY <1>1 DEF Shows
    <3> QED BY <1>2, <3>1 DEF NoGap, Held
  <2> QED BY <1>1, <1>3, <1>5, <2>1, <2>2, <2>3 DEF RowsWalk
<1>6. ASSUME EdgeWalk PROVE EdgeWalk'
  <2> SUFFICES ASSUME Walkable(query)', NEW p \in query'.partitions
               PROVE  /\ anchor' # Nowhere => Edge(query.desc, Acc(query, p), Shows(rows, p), high[p], anchor)'
                      /\ query'.desc /\ exhausted' => Bottom(Acc(query, p), Shows(rows, p))'
    BY DEF EdgeWalk
  <2>1. /\ anchor # Nowhere => Edge(query.desc, Acc(query, p), Shows(rows, p), high[p], anchor)
        /\ query.desc /\ exhausted => Bottom(Acc(query, p), Shows(rows, p))
    BY <1>1, <1>3, <1>6 DEF EdgeWalk
  <2>2. Shows(rows, p)' = Shows(rows, p) /\ Acc(query, p)' = Acc(query, p)
    BY <1>1, <1>2 DEF Shows
  <2>3. Edge(query.desc, Acc(query, p), Shows(rows, p), high[p], anchor)
          => Edge(query.desc, Acc(query, p), Shows(rows, p), high[p], anchor)'
    BY <1>1, <2>2 DEF Edge, Held
  <2>4. Bottom(Acc(query, p), Shows(rows, p)) => Bottom(Acc(query, p), Shows(rows, p))'
    BY <2>2 DEF Bottom, Held
  <2> QED BY <1>1, <2>1, <2>3, <2>4
<1>7. NextOf' = NextOf
  BY <1>1 DEF NextOf
<1>8. ASSUME NEW page, NEW p, Continues(page, p) PROVE Continues(page, p)'
  BY <1>1, <1>2, <1>8 DEF Continues, BackFrom, ForthFrom, Held, NoGap
<1> QED BY <1>4, <1>5, <1>6, <1>7, <1>8

LEMMA MoreWalk ==
  ASSUME PagesTypeInv, WalkInv, LoadMore
  PROVE  WalkInv'
<1>1. PICK new : new = [window |-> window, query |-> PageQuery(NextOf), reply |-> Nowhere]
  OBVIOUS
<1>2. /\ NextOf # Nowhere /\ (\A page \in pages : page.window # window) /\ pages' = pages \cup {new} /\ window' = window
      /\ StandsStill
  BY <1>1 DEF LoadMore, logVars, readerVars, StandsStill
<1> SUFFICES ASSUME Clean PROVE RowsWalk' /\ EdgeWalk' /\ PageWalk'
  BY <1>2, StillWalk DEF WalkInv
<1>3. RowsWalk' /\ EdgeWalk' /\ NextOf' = NextOf
  BY <1>2, StillWalk DEF WalkInv
<1>4. new.reply = Nowhere /\ new.query.from = NextOf
  <2>1. query \in QuerySet
    BY DEF PagesTypeInv
  <2>2. PageQuery(NextOf).from = NextOf
    BY <2>1 DEF PageQuery, QuerySet
  <2> QED BY <1>1, <2>2
<1>5. PageWalk'
  <2> SUFFICES ASSUME NEW page \in pages', page.window = window'
               PROVE  /\ NextOf' # Nowhere /\ page.query.from = NextOf'
                      /\ page.reply = Nowhere
    BY DEF PageWalk
  <2>1. page = new
    BY <1>2
  <2> QED BY <1>2, <1>3, <1>4, <2>1
<1> QED BY <1>3, <1>5

LEMMA FailWalk ==
  ASSUME WalkInv, NEW page \in pages, Fail(page)
  PROVE  WalkInv'
<1>1. pages' = pages \ {page} /\ window' = window /\ query' = query /\ StandsStill
  BY DEF Fail, logVars, readerVars, StandsStill
<1> SUFFICES ASSUME Clean PROVE RowsWalk' /\ EdgeWalk' /\ PageWalk'
  BY <1>1, StillWalk DEF WalkInv
<1>2. RowsWalk' /\ EdgeWalk' /\ PageWalk /\ NextOf' = NextOf
  BY <1>1, StillWalk DEF WalkInv
<1>3. PageWalk'
  <2> SUFFICES ASSUME NEW pg \in pages', pg.window = window'
               PROVE  /\ NextOf' # Nowhere /\ pg.query.from = NextOf'
                      /\ Walkable(query)' /\ pg.reply # Nowhere => \A p \in query'.partitions : Continues(pg, p)'
    BY DEF PageWalk
  <2>1. /\ NextOf # Nowhere /\ pg.query.from = NextOf
        /\ Walkable(query) /\ pg.reply # Nowhere => \A p \in query.partitions : Continues(pg, p)
    BY <1>1, <1>2 DEF PageWalk
  <2>2. \A p : Continues(pg, p) => Continues(pg, p)'
    BY <1>1, StillWalk
  <2>3. Walkable(query)' <=> Walkable(query)
    BY <1>1, SameQuery
  <2> QED BY <1>1, <1>2, <2>1, <2>2, <2>3
<1> QED BY <1>2, <1>3

\* A window with no rows of another and below its cap goes on as its pages say.
LEMMA ReplyWalk ==
  ASSUME PagesTypeInv, WalkInv, NEW page \in pages, Reply(page)
  PROVE  WalkInv'
<1>0. PICK read \in Reads(page.query) :
        \E all \in Sorted(page.query, Found(page.query, read)), below \in MoreBelow(page.query, read) :
          pages' = (pages \ {page}) \cup {[page EXCEPT !.reply = Page(page.query, read, all, below)]}
  BY DEF Reply
<1>1. PICK all \in Sorted(page.query, Found(page.query, read)), below \in MoreBelow(page.query, read) :
        pages' = (pages \ {page}) \cup {[page EXCEPT !.reply = Page(page.query, read, all, below)]}
  BY <1>0
<1>2. PICK reply, new : reply = Page(page.query, read, all, below) /\ new = [page EXCEPT !.reply = reply]
  OBVIOUS
<1>3. pages' = (pages \ {page}) \cup {new} /\ window' = window /\ query' = query /\ StandsStill
  BY <1>1, <1>2 DEF Reply, logVars, readerVars, StandsStill
<1> SUFFICES ASSUME Clean PROVE RowsWalk' /\ EdgeWalk' /\ PageWalk'
  BY <1>3, StillWalk DEF WalkInv
<1>4. RowsWalk' /\ EdgeWalk' /\ RowsWalk /\ EdgeWalk /\ PageWalk /\ NextOf' = NextOf
  BY <1>3, StillWalk DEF WalkInv
<1>5. PageOK(page) /\ LogOK /\ query \in QuerySet
  BY DEF PagesTypeInv
<1>6. new.window = page.window /\ new.query = page.query /\ new.reply = reply /\ page.query \in QuerySet
  BY <1>2, <1>5 DEF PageOK
<1>7. ASSUME page.window = window, Walkable(query), NEW p \in query.partitions PROVE Continues(new, p)
  <2>1. /\ ~exhausted /\ page.query.desc = query.desc /\ page.query.partitions = query.partitions
        /\ NextOf # Nowhere /\ page.query.from = NextOf
    BY <1>4, <1>5, <1>7 DEF PageOK, PageWalk
  <2>2. query.partitions = {p}
    BY <1>7 DEF Walkable
  <2>3. p \in Partitions /\ Edge(query.desc, Acc(query, p), Shows(rows, p), high[p], NextOf)
    BY <1>4, <1>7, <2>1, <2>2, NextEdge
  <2>4. PICK stop : Made(page.query, read, stop, all)
    BY <1>5, <1>6, MadeIs
  <2>5. PICK q : q = page.query
    OBVIOUS
  <2>6. Acc(q, p) = Acc(query, p)
    BY <2>1, <2>5 DEF Acc, Accepts
  <2>7. /\ q.partitions = {p} /\ Made(q, read, stop, all) /\ q.from = NextOf /\ q.desc = query.desc
        /\ reply = Page(q, read, all, below) /\ below \in MoreBelow(q, read)
    BY <1>2, <2>1, <2>2, <2>4, <2>5
  <2>8. CASE query.desc
    <3>1. NextOf < high[p]
      BY <2>3, <2>8 DEF Edge
    <3>2. \A r \in q.partitions : InOrder(r)
      BY <1>7, <2>1, <2>5, <2>8 DEF Walkable, Orderly
    <3>3. InOrder(p) /\ q.desc /\ q.from < high[p]
      BY <2>7, <2>8, <3>1, <3>2
    <3>4. BackFrom(Acc(q, p), high[p], q.from, Gives(reply.items, p), reply.next, reply.more)
      BY <1>5, <2>7, <3>3, GoesBack
    <3>5. FallsIds(Cut(all))
      BY <1>5, <2>7, <3>2, <3>3, DescGives
    <3>6. reply.items = Cut(all)
      BY <1>2 DEF Page
    <3> QED BY <1>6, <2>5, <2>6, <2>8, <3>4, <3>5, <3>6 DEF Continues
  <2>9. CASE ~query.desc
    <3>1. NextOf \in Nat /\ NextOf <= high[p]
      BY <2>3, <2>9 DEF Edge
    <3>2. ~q.desc /\ q.from \in Nat /\ q.from <= high[p]
      BY <2>7, <2>9, <3>1
    <3>3. ForthFrom(Acc(q, p), high[p], q.from, Gives(reply.items, p), reply.next)
      BY <1>5, <2>7, <3>2, GoesForth
    <3> QED BY <1>6, <2>5, <2>6, <2>9, <3>3 DEF Continues
  <2> QED BY <2>8, <2>9
<1>8. PageWalk'
  <2> SUFFICES ASSUME NEW pg \in pages', pg.window = window'
               PROVE  /\ NextOf' # Nowhere /\ pg.query.from = NextOf'
                      /\ Walkable(query)' /\ pg.reply # Nowhere => \A p \in query'.partitions : Continues(pg, p)'
    BY DEF PageWalk
  <2>1. /\ NextOf # Nowhere /\ pg.query.from = NextOf
        /\ Walkable(query) /\ pg.reply # Nowhere => \A p \in query.partitions : Continues(pg, p)
    <3>1. CASE pg \in pages
      BY <1>3, <1>4, <3>1 DEF PageWalk
    <3>2. CASE pg = new
      <4>1. page.window = window /\ pg.query = page.query
        BY <1>3, <1>6, <3>2
      <4>2. NextOf # Nowhere /\ page.query.from = NextOf
        BY <1>4, <4>1 DEF PageWalk
      <4> QED BY <1>7, <3>2, <4>1, <4>2
    <3> QED BY <1>3, <3>1, <3>2
  <2>2. \A p : Continues(pg, p) => Continues(pg, p)'
    BY <1>3, StillWalk
  <2>3. Walkable(query)' <=> Walkable(query)
    BY <1>3, SameQuery
  <2> QED BY <1>3, <1>4, <2>1, <2>2, <2>3
<1> QED BY <1>4, <1>8

\* The window's own stream is pushed onto an empty store, or leaves another
\* window's rows in it.
LEMMA StreamWalk ==
  ASSUME PagesTypeInv, WalkInv, StreamEnds
  PROVE  WalkInv'
<1>0. PICK read \in Reads(query) : \E all \in Sorted(query, Found(query, read)) :
        rows' = Pushed(rows, Cut(all), window)
  BY DEF StreamEnds
<1>1. PICK all \in Sorted(query, Found(query, read)) : rows' = Pushed(rows, Cut(all), window)
  BY <1>0
<1>2. /\ phase = "reading" /\ window' = window /\ query' = query /\ anchor' = anchor
      /\ exhausted' = exhausted /\ low' = low /\ high' = high /\ pages' = pages
  BY DEF StreamEnds, logVars
<1>3. /\ LogOK /\ query \in QuerySet /\ window \in Nat \ {0} /\ anchor = Nowhere /\ ~exhausted
      /\ rows \in Seq(RowSet) /\ (\A i \in 1 .. Len(rows) : RowOK(rows[i])) /\ \A page \in pages : page.window # window
  BY <1>2 DEF PagesTypeInv, PageOK
<1>4. PICK stop : Made(query, read, stop, all)
  BY <1>3, MadeIs
<1>5. PICK ids : ids = Cut(all) /\ ItemsOK(ids, query)
  BY <1>3, <1>4, PageItems
<1>6. ids \in Seq(IdSet) /\ rows' = Pushed(rows, ids, window)
  BY <1>1, <1>5 DEF ItemsOK
<1>7. PICK st, long, c, pos, d : Pushing(st, long, rows, ids, window, c, pos, d)
  BY <1>3, <1>6, PushIs
<1>8. rows' = st /\ st = Pushed(rows, ids, window) /\ st \in Seq(RowSet)
  BY <1>3, <1>6, <1>7, PushedRows DEF Pushing
<1> SUFFICES ASSUME Clean' PROVE RowsWalk' /\ EdgeWalk' /\ PageWalk'
  BY DEF WalkInv
<1>9. CleanAt(st, window, query.desc)
  BY <1>2, <1>8, CleanIsNext
<1>10. CleanAt(rows, window, query.desc)
  <2>1. \A i \in 1 .. Len(rows) : 1 <= rows[i].window /\ rows[i].window <= window
    BY <1>3 DEF RowOK
  <2>2. window <= window
    BY <1>3
  <2> QED BY <1>3, <1>6, <1>8, <1>9, <2>1, <2>2, CleanPush
<1>11. Len(rows) = 0 /\ \A p : Shows(rows, p) = {}
  <2>1. \A i \in 1 .. Len(rows) : FALSE
    BY <1>2, <1>3, <1>10 DEF CleanAt, RowOK
  <2>2. Len(rows) \in Nat
    BY <1>3, LenProperties
  <2>3. Len(rows) = 0
    BY <2>1, <2>2
  <2> QED BY <2>1, <2>3 DEF Shows
<1>12. \A p : Shows(long, p) = Gives(ids, p)
  <2> SUFFICES ASSUME NEW p PROVE Shows(long, p) = Gives(ids, p)
    OBVIOUS
  <2>1. Shows(long, p) = Shows(rows, p) \cup Gives(ids, p)
    BY <1>3, <1>6, <1>7, PushedShows
  <2> QED BY <1>11, <2>1
<1>13. \A p : Shows(st, p) \subseteq Gives(ids, p) /\ (Len(st) < Cap => Shows(st, p) = Gives(ids, p))
  <2> SUFFICES ASSUME NEW p PROVE Shows(st, p) \subseteq Gives(ids, p) /\ (Len(st) < Cap => Shows(st, p) = Gives(ids, p))
    OBVIOUS
  <2>1. Shows(st, p) \subseteq Shows(long, p) /\ (Len(st) < Cap => Shows(st, p) = Shows(long, p))
    BY <1>3, <1>6, <1>7, PushedShows
  <2> QED BY <1>12, <2>1
<1>14. ASSUME Orderly(query), NEW p
       PROVE  NoGap(Acc(query, p), Shows(st, p)) /\ (query.desc => Falls(st))
  <2>1. CASE query.desc
    <3>1. \A r \in query.partitions : InOrder(r)
      BY <1>14, <2>1 DEF Orderly
    <3>2. /\ FallsIds(ids)
          /\ \A a \in Gives(ids, p) :
               /\ a <= query.from
               /\ \A o \in Nat : a <= o /\ o <= query.from /\ Accepts(query, p, o) => o \in Gives(ids, p)
      BY <1>3, <1>4, <1>5, <2>1, <3>1, DescGives
    <3>3. Falls(rows)
      BY <1>11 DEF Falls
    <3>4. \A r : \A a \in Shows(rows, r), b \in Gives(ids, r) : b < a
      BY <1>11
    <3>5. Falls(st) /\ \A r : \A o \in Shows(long, r), b \in Shows(st, r) : o <= b => o \in Shows(st, r)
      BY <1>3, <1>6, <1>7, <3>2, <3>3, <3>4, PushedFalls
    <3>6. ASSUME NEW a \in Shows(st, p), NEW b \in Shows(st, p), NEW o \in Acc(query, p), a <= o, o <= b
          PROVE  o \in Shows(st, p)
      <4>1. a \in Gives(ids, p) /\ b \in Gives(ids, p) /\ o \in Nat /\ Accepts(query, p, o) /\ b \in Nat
        BY <1>13, <3>6 DEF Acc, Shows
      <4>2. o <= query.from
        <5>1. b <= query.from /\ query.from \in Int
          BY <1>4, <3>2, <4>1 DEF Made
        <5> QED BY <3>6, <4>1, <5>1
      <4>3. o \in Gives(ids, p)
        BY <3>2, <3>6, <4>1, <4>2
      <4> QED BY <1>12, <3>5, <3>6, <4>3
    <3> QED BY <3>5, <3>6 DEF NoGap, Held
  <2>2. CASE ~query.desc
    <3>1. Shows(st, p) = Gives(ids, p)
      BY <1>9, <1>13, <2>2 DEF CleanAt
    <3>2. \A a, b \in Gives(ids, p) : \A o \in Nat : a <= o /\ o <= b /\ Accepts(query, p, o) => o \in Gives(ids, p)
      BY <1>3, <1>4, <1>5, <2>2, AscGives
    <3>3. NoGap(Acc(query, p), Gives(ids, p))
      BY <3>2 DEF NoGap, Held, Acc
    <3> QED BY <2>2, <3>1, <3>3
  <2> QED BY <2>1, <2>2
<1>15. RowsWalk'
  <2>1. \A p : Acc(query, p)' = Acc(query, p)
    BY <1>2, SameAcc
  <2>2. Orderly(query)' <=> Orderly(query)
    BY <1>2, SameQuery
  <2>3. \A p : NoGap(Acc(query, p), Shows(st, p)) => NoGap(Acc(query, p), Shows(rows, p))'
    <3> SUFFICES ASSUME NEW p PROVE NoGap(Acc(query, p), Shows(st, p)) => NoGap(Acc(query, p), Shows(rows, p))'
      OBVIOUS
    <3>1. Shows(rows, p)' = Shows(st, p)
      BY <1>8 DEF Shows
    <3> QED BY <2>1, <3>1 DEF NoGap, Held
  <2>4. Falls(st) => Falls(rows)'
    BY <1>8 DEF Falls
  <2> QED BY <1>2, <1>14, <2>2, <2>3, <2>4 DEF RowsWalk
<1>16. EdgeWalk'
  BY <1>2, <1>3 DEF EdgeWalk
<1>17. PageWalk'
  BY <1>2, <1>3 DEF PageWalk
<1> QED BY <1>15, <1>16, <1>17

\* What a page of the walk leaves on screen.
LEMMA OwnArrive ==
  ASSUME PagesTypeInv, Clean, RowsWalk, EdgeWalk, PageWalk, Walkable(query),
         NEW page \in pages, page.window = window, page.reply # Nowhere,
         NEW st, st = Pushed(rows, page.reply.items, page.window), CleanAt(st, window, query.desc),
         NEW p \in query.partitions
  PROVE  /\ \A r \in Partitions : NoGap(Acc(query, r), Shows(st, r))
         /\ query.desc => Falls(st)
         /\ page.reply.next # Nowhere => Edge(query.desc, Acc(query, p), Shows(st, p), high[p], page.reply.next)
         /\ query.desc /\ (~page.reply.more \/ page.reply.next = Nowhere) => Bottom(Acc(query, p), Shows(st, p))
<1>1. /\ ~exhausted /\ page.query.partitions = query.partitions
      /\ ItemsOK(page.reply.items, page.query) /\ NextOf # Nowhere /\ page.query.from = NextOf
      /\ Continues(page, p)
  BY DEF PagesTypeInv, PageOK, PageWalk
<1>2. query.partitions = {p}
  BY DEF Walkable
<1>3. /\ p \in Partitions /\ NoGap(Acc(query, p), Shows(rows, p))
      /\ Edge(query.desc, Acc(query, p), Shows(rows, p), high[p], NextOf)
  BY <1>1, <1>2, NextEdge
<1>4. PICK ids, next, more, from : ids = page.reply.items /\ next = page.reply.next /\ more = page.reply.more /\ from = NextOf
  OBVIOUS
<1>5. ids \in Seq(IdSet) /\ \A i \in 1 .. Len(ids) : ids[i][1] = p
  BY <1>1, <1>2, <1>4 DEF ItemsOK
<1>6. /\ rows \in Seq(RowSet) /\ window \in Nat
  BY DEF PagesTypeInv
<1>7. st = Pushed(rows, ids, window)
  BY <1>4
<1>8. PICK s1, long, c, pos, d : Pushing(s1, long, rows, ids, window, c, pos, d)
  BY <1>5, <1>6, PushIs
<1>9. s1 = st /\ Pushing(st, long, rows, ids, window, c, pos, d)
  BY <1>7, <1>8 DEF Pushing
<1>10. \A r : /\ Shows(long, r) = Shows(rows, r) \cup Gives(ids, r)
              /\ Shows(st, r) \subseteq Shows(rows, r) \cup Gives(ids, r)
              /\ Len(st) < Cap => Shows(st, r) = Shows(rows, r) \cup Gives(ids, r)
  <2> SUFFICES ASSUME NEW r
               PROVE  /\ Shows(long, r) = Shows(rows, r) \cup Gives(ids, r)
                      /\ Shows(st, r) \subseteq Shows(rows, r) \cup Gives(ids, r)
                      /\ Len(st) < Cap => Shows(st, r) = Shows(rows, r) \cup Gives(ids, r)
    OBVIOUS
  <2>1. /\ Shows(long, r) = Shows(rows, r) \cup Gives(ids, r)
        /\ Shows(st, r) \subseteq Shows(long, r)
        /\ Len(st) < Cap => Shows(st, r) = Shows(long, r)
    BY <1>5, <1>6, <1>9, PushedShows
  <2> QED BY <2>1
<1>11. \A r : r # p => Gives(ids, r) = {} /\ Shows(rows, r) = {} /\ Shows(st, r) = {}
  <2> SUFFICES ASSUME NEW r, r # p PROVE Gives(ids, r) = {} /\ Shows(rows, r) = {} /\ Shows(st, r) = {}
    OBVIOUS
  <2>1. Shows(rows, r) = {}
    BY <1>2, Shown
  <2>2. Gives(ids, r) = {}
    <3> SUFFICES ASSUME NEW o \in Gives(ids, r) PROVE FALSE
      OBVIOUS
    <3>1. PICK i \in 1 .. Len(ids) : ids[i] = <<r, o>>
      BY DEF Gives
    <3> QED BY <1>5, <3>1
  <2> QED BY <1>10, <2>1, <2>2
<1>12. \A r \in Partitions : r # p => NoGap(Acc(query, r), Shows(st, r))
  BY <1>11 DEF NoGap
<1>13. PICK acc, S, G, T, hi : acc = Acc(query, p) /\ S = Shows(rows, p) /\ G = Gives(ids, p) /\ T = Shows(st, p) /\ hi = high[p]
  OBVIOUS
<1>14. acc \in SUBSET Nat /\ S \in SUBSET Nat /\ G \in SUBSET Nat /\ T \in SUBSET Nat /\ hi \in Nat
  BY <1>3, <1>13 DEF Acc, Shows, Gives, PagesTypeInv, LogOK
<1>15. NoGap(acc, S) /\ Edge(query.desc, acc, S, hi, from)
  BY <1>3, <1>4, <1>13
<1>16. CASE query.desc = TRUE
  <2>1. FallsIds(ids) /\ BackFrom(acc, hi, from, G, next, more)
    BY <1>1, <1>4, <1>13, <1>16 DEF Continues
  <2>2. Edge(TRUE, acc, S, hi, from)
    BY <1>15, <1>16
  <2>3. \A a \in S, b \in G : b < a
    <3>1. from \in Int /\ (\A a \in S : from < a) /\ \A b \in G : b <= from
      BY <2>1, <2>2 DEF Edge, BackFrom
    <3> QED BY <1>14, <3>1
  <2>4. Falls(rows)
    BY <1>16 DEF RowsWalk, Walkable
  <2>5. \A r : \A a \in Shows(rows, r), b \in Gives(ids, r) : b < a
    BY <1>11, <1>13, <2>3
  <2>6. Falls(st) /\ \A r : \A o \in Shows(long, r), b \in Shows(st, r) : o <= b => o \in Shows(st, r)
    BY <1>5, <1>6, <1>9, <2>1, <2>4, <2>5, PushedFalls
  <2>7. T \subseteq S \cup G /\ \A o \in S \cup G, b \in T : o <= b => o \in T
    BY <1>10, <1>13, <2>6
  <2>8. /\ NoGap(acc, T)
        /\ next # Nowhere => Edge(TRUE, acc, T, hi, next)
        /\ ~more \/ next = Nowhere => Bottom(acc, T)
    BY <1>14, <1>15, <2>1, <2>2, <2>7, StepBack
  <2> QED BY <1>4, <1>12, <1>13, <1>16, <2>6, <2>8
<1>17. CASE query.desc = FALSE
  <2>1. ForthFrom(acc, hi, from, G, next) /\ Edge(FALSE, acc, S, hi, from)
    BY <1>1, <1>4, <1>13, <1>15, <1>17 DEF Continues
  <2>2. T = S \cup G
    BY <1>10, <1>13, <1>17 DEF CleanAt
  <2>3. /\ NoGap(acc, S \cup G)
        /\ next # Nowhere => Edge(FALSE, acc, S \cup G, hi, next)
    BY <1>14, <1>15, <2>1, StepForth
  <2> QED BY <1>4, <1>12, <1>13, <1>17, <2>2, <2>3
<1>18. query.desc \in BOOLEAN
  BY DEF PagesTypeInv, QuerySet
<1> QED BY <1>16, <1>17, <1>18

LEMMA ArriveWalk ==
  ASSUME PagesTypeInv, WalkInv, NEW page \in pages, Arrive(page)
  PROVE  WalkInv'
<1>1. /\ page.reply # Nowhere /\ pages' = pages \ {page} /\ rows' = Pushed(rows, page.reply.items, page.window)
      /\ page.window = window => /\ anchor' = page.reply.next
                                 /\ exhausted' = (~page.reply.more \/ page.reply.next = Nowhere)
      /\ page.window # window => anchor' = anchor /\ exhausted' = exhausted
      /\ phase' = phase /\ window' = window /\ query' = query /\ low' = low /\ high' = high
  BY DEF Arrive, logVars
<1>2. LogOK /\ query \in QuerySet /\ window \in Nat \ {0} /\ OnePage /\ rows \in Seq(RowSet)
      /\ PageOK(page) /\ \A i \in 1 .. Len(rows) : RowOK(rows[i])
  BY DEF PagesTypeInv
<1>3. PICK st, ids, w : st = Pushed(rows, ids, w) /\ ids = page.reply.items /\ w = page.window
  OBVIOUS
<1>4. ids \in Seq(IdSet) /\ w \in Nat \ {0} /\ w <= window /\ st \in Seq(RowSet) /\ rows' = st
  BY <1>1, <1>2, <1>3, PushedRows DEF PageOK, ItemsOK
<1> SUFFICES ASSUME Clean' PROVE RowsWalk' /\ EdgeWalk' /\ PageWalk'
  BY DEF WalkInv
<1>5. CleanAt(st, window, query.desc)
  BY <1>1, <1>4, CleanIsNext
<1>6. CleanAt(rows, window, query.desc) /\ (w # window => st = rows)
  <2>1. \A i \in 1 .. Len(rows) : 1 <= rows[i].window /\ rows[i].window <= window
    BY <1>2 DEF RowOK
  <2>2. PICK store, win, desc : store = rows /\ win = window /\ desc = query.desc
    OBVIOUS
  <2>3. /\ store \in Seq(RowSet) /\ win \in Nat \ {0} /\ st = Pushed(store, ids, w) /\ w <= win
        /\ \A i \in 1 .. Len(store) : 1 <= store[i].window /\ store[i].window <= win
    BY <1>2, <1>3, <1>4, <2>1, <2>2
  <2>4. CleanAt(st, win, desc)
    BY <1>5, <2>2
  <2>5. CleanAt(store, win, desc) /\ (w # win => st = store)
    BY <1>4, <2>3, <2>4, CleanPush
  <2> QED BY <2>2, <2>5
<1>7. Clean /\ RowsWalk /\ EdgeWalk /\ PageWalk
  BY <1>2, <1>6, CleanIs DEF WalkInv
<1>8. CASE w # window
  <2>1. StandsStill
    BY <1>1, <1>3, <1>4, <1>6, <1>8 DEF StandsStill
  <2>2. RowsWalk' /\ EdgeWalk' /\ NextOf' = NextOf
    BY <1>7, <2>1, StillWalk
  <2>3. PageWalk'
    <3> SUFFICES ASSUME NEW pg \in pages', pg.window = window'
                 PROVE  /\ NextOf' # Nowhere /\ pg.query.from = NextOf'
                        /\ Walkable(query)' /\ pg.reply # Nowhere => \A p \in query'.partitions : Continues(pg, p)'
      BY DEF PageWalk
    <3>1. /\ NextOf # Nowhere /\ pg.query.from = NextOf
          /\ Walkable(query) /\ pg.reply # Nowhere => \A p \in query.partitions : Continues(pg, p)
      BY <1>1, <1>7 DEF PageWalk
    <3>2. \A p : Continues(pg, p) => Continues(pg, p)'
      BY <2>1, StillWalk
    <3>3. Walkable(query)' <=> Walkable(query)
      BY <1>1, SameQuery
    <3> QED BY <1>1, <2>2, <3>1, <3>2, <3>3
  <2> QED BY <2>2, <2>3
<1>9. CASE w = window
  <2>1. page.window = window /\ anchor' = page.reply.next
        /\ exhausted' = (~page.reply.more \/ page.reply.next = Nowhere)
    BY <1>1, <1>3, <1>9
  <2>2. st = Pushed(rows, page.reply.items, page.window)
    BY <1>3
  <2>3. \A p : Acc(query, p)' = Acc(query, p)
    BY <1>1, SameAcc
  <2>4. \A p : Shows(rows, p)' = Shows(st, p)
    BY <1>4 DEF Shows
  <2>5. Walkable(query)' <=> Walkable(query)
    BY <1>1, SameQuery
  <2>6. PageWalk'
    <3>1. \A pg \in pages' : pg.window # window'
      BY <1>1, <1>2, <2>1 DEF OnePage
    <3> QED BY <3>1 DEF PageWalk
  <2>7. ~FirstPage'
    BY <2>1 DEF FirstPage
  <2>8. RowsWalk'
    <3> SUFFICES ASSUME Walkable(query)
                 PROVE  /\ \A p \in Partitions : NoGap(Acc(query, p), Shows(rows, p))'
                        /\ query'.desc => Falls(rows)'
      BY <2>5, <2>7 DEF RowsWalk
    <3>1. PICK p : p \in query.partitions
      BY DEF Walkable
    <3>2. /\ \A r \in Partitions : NoGap(Acc(query, r), Shows(st, r))
          /\ query.desc => Falls(st)
      BY <1>1, <1>5, <1>7, <2>1, <2>2, <3>1, OwnArrive
    <3>3. Falls(st) => Falls(rows)'
      BY <1>4 DEF Falls
    <3>4. \A r : NoGap(Acc(query, r), Shows(st, r)) => NoGap(Acc(query, r), Shows(rows, r))'
      BY <2>3, <2>4 DEF NoGap, Held
    <3> QED BY <1>1, <3>2, <3>3, <3>4
  <2>9. EdgeWalk'
    <3> SUFFICES ASSUME Walkable(query), NEW p \in query.partitions
                 PROVE  /\ anchor' # Nowhere => Edge(query.desc, Acc(query, p), Shows(rows, p), high[p], anchor)'
                        /\ query'.desc /\ exhausted' => Bottom(Acc(query, p), Shows(rows, p))'
      BY <1>1, <2>5 DEF EdgeWalk
    <3>1. /\ page.reply.next # Nowhere => Edge(query.desc, Acc(query, p), Shows(st, p), high[p], page.reply.next)
          /\ query.desc /\ (~page.reply.more \/ page.reply.next = Nowhere) => Bottom(Acc(query, p), Shows(st, p))
      BY <1>1, <1>5, <1>7, <2>1, <2>2, OwnArrive
    <3>2. Shows(rows, p)' = Shows(st, p) /\ Acc(query, p)' = Acc(query, p)
      BY <2>3, <2>4
    <3>3. Edge(query.desc, Acc(query, p), Shows(st, p), high[p], page.reply.next)
            => Edge(query.desc, Acc(query, p), Shows(rows, p), high[p], anchor)'
      BY <1>1, <2>1, <3>2 DEF Edge, Held
    <3>4. Bottom(Acc(query, p), Shows(st, p)) => Bottom(Acc(query, p), Shows(rows, p))'
      BY <3>2 DEF Bottom, Held
    <3> QED BY <1>1, <2>1, <3>1, <3>3, <3>4
  <2> QED BY <2>6, <2>8, <2>9
<1> QED BY <1>8, <1>9

\* What moves in the log leaves the walk.
LEMMA LogWalk ==
  ASSUME PagesTypeInv, WalkInv, NEW moved \in Partitions, Grow(moved) \/ Retain(moved)
  PROVE  WalkInv'
<1>1. LogOK /\ LogOK' /\ (\A r \in Partitions : low[r] <= low'[r] /\ high[r] <= high'[r]) /\ UNCHANGED <<readerVars, pages>>
  BY LogMoves DEF PagesTypeInv
<1>2. /\ pages' = pages /\ rows' = rows /\ anchor' = anchor /\ exhausted' = exhausted
      /\ window' = window /\ query' = query
  BY <1>1 DEF readerVars
<1>3. \A r \in Partitions : high[r] \in Nat /\ high'[r] \in Nat /\ low[r] \in Nat /\ low'[r] \in Nat
  BY <1>1 DEF LogOK
<1>4. ASSUME NEW p \in Partitions
      PROVE  /\ Acc(query, p) \in SUBSET Nat /\ Acc(query, p)' \in SUBSET Nat
             /\ Moves(Acc(query, p), high[p], Acc(query, p)', high'[p])
  <2>1. Acc(query, p) \in SUBSET Nat /\ Acc(query, p)' \in SUBSET Nat
    BY DEF Acc
  <2>2. ASSUME NEW o \in Acc(query, p)', o < high[p] PROVE o \in Acc(query, p)
    <3>1. o \in Nat /\ Kind(p, o) \in (IF query.desc THEN {"hit"} ELSE {"hit", "bad"}) /\ low'[p] <= o
      BY <1>2, <2>2 DEF Acc, Accepts, Kind
    <3>2. low[p] <= o
      BY <1>1, <1>3, <3>1
    <3> QED BY <2>2, <3>1, <3>2 DEF Acc, Accepts
  <2>3. high[p] <= high'[p]
    BY <1>1
  <2> QED BY <2>1, <2>2, <2>3 DEF Moves
<1>5. Clean' <=> Clean
  BY <1>2 DEF Clean, OwnRows, CutInOrder, Stray
<1>6. (Walkable(query)' <=> Walkable(query)) /\ (Orderly(query)' <=> Orderly(query)) /\ (FirstPage' <=> FirstPage)
      /\ NextOf' = NextOf /\ (Falls(rows)' <=> Falls(rows)) /\ \A p : Shows(rows, p)' = Shows(rows, p)
  <2>1. (Walkable(query)' <=> Walkable(query)) /\ (Orderly(query)' <=> Orderly(query))
    BY <1>2, SameQuery
  <2>2. FirstPage' <=> FirstPage
    BY <1>2 DEF FirstPage
  <2>3. NextOf' = NextOf
    BY <1>2 DEF NextOf
  <2>4. Falls(rows)' <=> Falls(rows)
    BY <1>2 DEF Falls
  <2>5. \A p : Shows(rows, p)' = Shows(rows, p)
    BY <1>2 DEF Shows
  <2> QED BY <2>1, <2>2, <2>3, <2>4, <2>5
<1> SUFFICES ASSUME Clean PROVE RowsWalk' /\ EdgeWalk' /\ PageWalk'
  BY <1>5 DEF WalkInv
<1>7. RowsWalk /\ EdgeWalk /\ PageWalk
  BY DEF WalkInv
<1>8. ASSUME NEW p \in Partitions
      PROVE  /\ NoGap(Acc(query, p), Shows(rows, p)) => NoGap(Acc(query, p), Shows(rows, p))'
             /\ Bottom(Acc(query, p), Shows(rows, p)) => Bottom(Acc(query, p), Shows(rows, p))'
             /\ anchor # Nowhere /\ Edge(query.desc, Acc(query, p), Shows(rows, p), high[p], anchor)
                  => Edge(query.desc, Acc(query, p), Shows(rows, p), high[p], anchor)'
  <2>1. PICK acc, acc2, hi, hi2, S : /\ acc = Acc(query, p) /\ acc2 = Acc(query, p)' /\ hi = high[p] /\ hi2 = high'[p]
                                     /\ S = Shows(rows, p)
    OBVIOUS
  <2>2. /\ acc \in SUBSET Nat /\ acc2 \in SUBSET Nat /\ hi \in Nat /\ hi2 \in Nat /\ Moves(acc, hi, acc2, hi2)
    BY <1>3, <1>4, <2>1
  <2>3. S \in SUBSET Nat /\ \A a \in S : a < hi
    BY <2>1, Shown
  <2>4. query.desc \in BOOLEAN
    BY DEF PagesTypeInv, QuerySet
  <2>5. /\ NoGap(acc, S) => NoGap(acc2, S)
        /\ Bottom(acc, S) => Bottom(acc2, S)
        /\ Edge(query.desc, acc, S, hi, anchor) => Edge(query.desc, acc2, S, hi2, anchor)
    BY <2>2, <2>3, <2>4, EdgeMoves
  <2>6. S = Shows(rows, p)'
    BY <1>6, <2>1
  <2>7. NoGap(acc2, S) => NoGap(Acc(query, p), Shows(rows, p))'
    BY <2>1, <2>6 DEF NoGap, Held
  <2>8. Bottom(acc2, S) => Bottom(Acc(query, p), Shows(rows, p))'
    BY <2>1, <2>6 DEF Bottom, Held
  <2>9. Edge(query.desc, acc2, S, hi2, anchor) => Edge(query.desc, Acc(query, p), Shows(rows, p), high[p], anchor)'
    BY <1>2, <2>1, <2>6 DEF Edge, Held
  <2> QED BY <2>1, <2>5, <2>7, <2>8, <2>9
<1>9. RowsWalk'
  BY <1>2, <1>6, <1>7, <1>8 DEF RowsWalk
<1>10. query.partitions \subseteq Partitions
  BY DEF PagesTypeInv, QuerySet
<1>11. EdgeWalk'
  <2> SUFFICES ASSUME Walkable(query), NEW p \in query.partitions
               PROVE  /\ anchor' # Nowhere => Edge(query.desc, Acc(query, p), Shows(rows, p), high[p], anchor)'
                      /\ query'.desc /\ exhausted' => Bottom(Acc(query, p), Shows(rows, p))'
    BY <1>2, <1>6 DEF EdgeWalk
  <2>1. /\ anchor # Nowhere => Edge(query.desc, Acc(query, p), Shows(rows, p), high[p], anchor)
        /\ query.desc /\ exhausted => Bottom(Acc(query, p), Shows(rows, p))
    BY <1>7 DEF EdgeWalk
  <2> QED BY <1>2, <1>8, <1>10, <2>1
<1>12. PageWalk'
  <2> SUFFICES ASSUME NEW pg \in pages, pg.window = window
               PROVE  /\ NextOf # Nowhere /\ pg.query.from = NextOf
                      /\ Walkable(query) /\ pg.reply # Nowhere => \A p \in query.partitions : Continues(pg, p)'
    BY <1>2, <1>6 DEF PageWalk
  <2>1. /\ NextOf # Nowhere /\ pg.query.from = NextOf
        /\ Walkable(query) /\ pg.reply # Nowhere => \A p \in query.partitions : Continues(pg, p)
    BY <1>7 DEF PageWalk
  <2>2. ASSUME NEW p \in query.partitions, Continues(pg, p) PROVE Continues(pg, p)'
    <3>1. PICK acc, acc2, hi, hi2, G, from, next, more :
            /\ acc = Acc(query, p) /\ acc2 = Acc(query, p)' /\ hi = high[p] /\ hi2 = high'[p]
            /\ G = Gives(pg.reply.items, p) /\ from = pg.query.from /\ next = pg.reply.next /\ more = pg.reply.more
      OBVIOUS
    <3>2. /\ acc \in SUBSET Nat /\ acc2 \in SUBSET Nat /\ hi \in Nat /\ hi2 \in Nat /\ Moves(acc, hi, acc2, hi2)
          /\ G \in SUBSET Nat
      BY <1>3, <1>4, <1>10, <3>1 DEF Gives
    <3>3. /\ BackFrom(acc, hi, from, G, next, more) => BackFrom(acc2, hi2, from, G, next, more)
          /\ ForthFrom(acc, hi, from, G, next) => ForthFrom(acc2, hi2, from, G, next)
      BY <3>2, PageMoves
    <3>4. IF query.desc THEN FallsIds(pg.reply.items) /\ BackFrom(acc2, hi2, from, G, next, more)
                        ELSE ForthFrom(acc2, hi2, from, G, next)
      BY <2>2, <3>1, <3>3 DEF Continues
    <3>5. BackFrom(acc2, hi2, from, G, next, more)
            => BackFrom(Acc(query, p), high[p], pg.query.from, Gives(pg.reply.items, p), pg.reply.next, pg.reply.more)'
      BY <3>1 DEF BackFrom, Held
    <3>6. ForthFrom(acc2, hi2, from, G, next)
            => ForthFrom(Acc(query, p), high[p], pg.query.from, Gives(pg.reply.items, p), pg.reply.next)'
      BY <3>1 DEF ForthFrom, NoGap, Held
    <3> QED BY <1>2, <3>4, <3>5, <3>6 DEF Continues
  <2> QED BY <2>1, <2>2
<1> QED BY <1>9, <1>11, <1>12

-----------------------------------------------------------------------------
LEMMA PagesStep == PagesInv /\ [PagesNext]_vars => PagesInv'
<1> SUFFICES ASSUME PagesTypeInv, WalkInv, [PagesNext]_vars
             PROVE  PagesTypeInv' /\ WalkInv'
  BY DEF PagesInv
<1>1. ASSUME NEW q \in Queries, Open(q) PROVE PagesTypeInv' /\ WalkInv'
  BY <1>1, OpenType, OpenWalk
<1>2. CASE StreamEnds
  BY <1>2, StreamType, StreamWalk
<1>3. CASE LoadMore
  BY <1>3, MoreType, MoreWalk
<1>4. ASSUME NEW page \in pages, Reply(page) PROVE PagesTypeInv' /\ WalkInv'
  BY <1>4, ReplyType, ReplyWalk
<1>5. ASSUME NEW page \in pages, Arrive(page) PROVE PagesTypeInv' /\ WalkInv'
  BY <1>5, ArriveType, ArriveWalk
<1>6. ASSUME NEW page \in pages, Fail(page) PROVE PagesTypeInv' /\ WalkInv'
  BY <1>6, FailType, FailWalk
<1>7. ASSUME NEW p \in Partitions, Grow(p) \/ Retain(p) PROVE PagesTypeInv' /\ WalkInv'
  BY <1>7, LogType, LogWalk
<1>8. CASE UNCHANGED vars
  <2>1. /\ rows' = rows /\ anchor' = anchor /\ exhausted' = exhausted /\ window' = window /\ query' = query
        /\ low' = low /\ high' = high /\ pages' = pages /\ phase' = phase
    BY <1>8 DEF vars, logVars, readerVars
  <2>2. PagesTypeInv'
    <3>1. LogOK' /\ OnePage' /\ (\A pg \in pages' : PageOK(pg)') /\ \A i \in 1 .. Len(rows') : RowOK(rows[i])'
      <4>1. LogOK /\ OnePage /\ (\A pg \in pages : PageOK(pg)) /\ \A i \in 1 .. Len(rows) : RowOK(rows[i])
        BY DEF PagesTypeInv
      <4>2. LogOK' /\ OnePage'
        BY <2>1, <4>1 DEF LogOK, Whole, OnePage
      <4>3. \A pg \in pages' : PageOK(pg)'
        BY <2>1, <4>1 DEF PageOK, ItemsOK
      <4>4. \A i \in 1 .. Len(rows') : RowOK(rows[i])'
        BY <2>1, <4>1 DEF RowOK
      <4> QED BY <4>2, <4>3, <4>4
    <3> QED BY <2>1, <3>1 DEF PagesTypeInv
  <2>3. StandsStill
    BY <2>1 DEF StandsStill
  <2>4. (Clean' <=> Clean) /\ (RowsWalk => RowsWalk') /\ (EdgeWalk => EdgeWalk') /\ NextOf' = NextOf
        /\ \A page, p : Continues(page, p) => Continues(page, p)'
    BY <2>3, StillWalk
  <2>5. ASSUME PageWalk PROVE PageWalk'
    <3>1. Walkable(query)' <=> Walkable(query)
      BY <2>1, SameQuery
    <3> QED BY <2>1, <2>4, <2>5, <3>1 DEF PageWalk
  <2> QED BY <2>2, <2>4, <2>5 DEF WalkInv
<1> QED BY <1>1, <1>2, <1>3, <1>4, <1>5, <1>6, <1>7, <1>8 DEF PagesNext

LEMMA PagesInvHolds == PagesSafety => []PagesInv
<1>1. PagesInit => PagesInv
  BY InitType, InitWalk DEF PagesInv
<1> QED BY <1>1, PagesStep, PTL DEF PagesSafety

\* The offsets on screen, and the rows.
LEMMA ShownRows ==
  ASSUME rows \in Seq(RowSet)
  PROVE  /\ \A row \in ToSet(rows) : row.p \in Partitions /\ row.o \in Nat /\ row.o \in Shows(rows, row.p)
         /\ \A p : \A o \in Shows(rows, p) : \E row \in ToSet(rows) : Id(row) = <<p, o>>
<1>1. DOMAIN rows = 1 .. Len(rows) /\ \A i \in 1 .. Len(rows) : rows[i].p \in Partitions /\ rows[i].o \in Nat
  <2>1. DOMAIN rows = 1 .. Len(rows) /\ \A i \in 1 .. Len(rows) : rows[i] \in RowSet
    BY LenProperties, ElementOfSeq
  <2> QED BY <2>1 DEF RowSet
<1>2. ASSUME NEW row \in ToSet(rows)
      PROVE  row.p \in Partitions /\ row.o \in Nat /\ row.o \in Shows(rows, row.p)
  <2>1. PICK i \in 1 .. Len(rows) : row = rows[i]
    BY <1>1 DEF ToSet
  <2> QED BY <1>1, <2>1 DEF Shows
<1>3. ASSUME NEW p, NEW o \in Shows(rows, p)
      PROVE  \E row \in ToSet(rows) : Id(row) = <<p, o>>
  <2>1. PICK i \in 1 .. Len(rows) : rows[i].p = p /\ rows[i].o = o
    BY DEF Shows
  <2>2. rows[i] \in ToSet(rows)
    BY <1>1 DEF ToSet
  <2> QED BY <2>1, <2>2 DEF Id
<1> QED BY <1>2, <1>3

\* MessagePages: a walk over one partition steps over nothing, and neither
\* does a first window, whatever was filtered, cut, appended or removed.
THEOREM TheWalkHasNoHoles == PagesSafety => []NoHoles
<1>1. PagesInv => NoHoles
  <2> SUFFICES ASSUME PagesInv, Walkable(query) \/ (Orderly(query) /\ FirstPage), OwnRows, CutInOrder,
                      NEW a \in ToSet(rows), NEW b \in ToSet(rows), a.p = b.p,
                      NEW o \in a.o .. b.o, Accepts(query, a.p, o)
               PROVE  \E row \in ToSet(rows) : Id(row) = <<a.p, o>>
    BY DEF NoHoles
  <2>1. rows \in Seq(RowSet)
    BY DEF PagesInv, PagesTypeInv
  <2>2. a.p \in Partitions /\ a.o \in Nat /\ b.o \in Nat /\ a.o \in Shows(rows, a.p) /\ b.o \in Shows(rows, a.p)
    BY <2>1, ShownRows
  <2>3. RowsWalk /\ Orderly(query) /\ (Walkable(query) \/ FirstPage)
    BY DEF PagesInv, WalkInv, Clean, Walkable
  <2>4. NoGap(Acc(query, a.p), Shows(rows, a.p))
    BY <2>2, <2>3 DEF RowsWalk
  <2>5. o \in Acc(query, a.p) /\ a.o <= o /\ o <= b.o
    BY <2>2 DEF Acc
  <2>6. o \in Shows(rows, a.p)
    BY <2>2, <2>4, <2>5 DEF NoGap, Held
  <2> QED BY <2>1, <2>6, ShownRows
<1> QED BY <1>1, PagesInvHolds, PTL

\* MessagePages: when a walk back over one partition is told that there is
\* nothing more, nothing it accepts is left below its rows.
THEOREM TheEndOfAWalkIsTheEnd == PagesSafety => []EndIsTheEnd
<1>1. PagesInv => EndIsTheEnd
  <2> SUFFICES ASSUME PagesInv, Walkable(query), query.desc, exhausted, OwnRows,
                      NEW row \in ToSet(rows), NEW o \in 0 .. row.o, Accepts(query, row.p, o)
               PROVE  \E r \in ToSet(rows) : Id(r) = <<row.p, o>>
    BY DEF EndIsTheEnd
  <2>1. rows \in Seq(RowSet)
    BY DEF PagesInv, PagesTypeInv
  <2>2. row.o \in Nat /\ row.o \in Shows(rows, row.p)
    BY <2>1, ShownRows
  <2>3. EdgeWalk /\ Clean
    BY DEF PagesInv, WalkInv, Clean, CutInOrder
  <2>4. row.p \in query.partitions
    BY <2>2, <2>3, Shown DEF PagesInv
  <2>5. Bottom(Acc(query, row.p), Shows(rows, row.p))
    BY <2>3, <2>4 DEF EdgeWalk
  <2>6. o \in Acc(query, row.p) /\ 0 <= o /\ o <= row.o
    BY <2>2 DEF Acc
  <2>7. o \in Shows(rows, row.p)
    BY <2>2, <2>5, <2>6 DEF Bottom, Held
  <2> QED BY <2>1, <2>7, ShownRows
<1> QED BY <1>1, PagesInvHolds, PTL

=============================================================================
