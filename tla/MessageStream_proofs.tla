------------------------ MODULE MessageStream_proofs ------------------------
(***************************************************************************)
(* Proofs about MessageStream, for any logs, queries, frame and ring       *)
(* sizes, limits and numbers of connections: nothing is lost in silence,   *)
(* a response the server completes has told the reader `done`, and the     *)
(* store keeps its rows once and in order.                                 *)
(*                                                                         *)
(* None of the three is inductive, for a row may be anywhere between the   *)
(* scan and the store.  The invariant follows it along that path: the      *)
(* batch, then what the writer has still to write (Coming), then the wire, *)
(* then the screen.                                                        *)
(*   EndInv    `done` is the last frame of what is Pending, and only once  *)
(*             the pump is closing: the ring drops the oldest, never it.   *)
(*   WireInv   a count the writer told is on the wire or on the banner.    *)
(*   ScanInv   where the scan is: a forward one owes all it has come past. *)
(*   CoverInv  unless drops are shown or counted, the rows owed are on     *)
(*             that path, and a row comes with or after those before it:   *)
(*             this is what a connection that starts over relies on, whose *)
(*             rows meet in the store those of the connections before it.  *)
(*   LiveInv   a live stream only ever ascends, whatever it drops.         *)
(*   StoreInv  the store itself.                                           *)
(***************************************************************************)
EXTENDS MessageStream, TLAPS, FiniteSetTheorems, SequenceTheorems

\* A row is told apart by its partition and offset.
RowId == Partitions \X Nat

Forward == query.mode \in {"oldest", "fromOffset"}
Live    == query.mode = "live"

\* Where a bounded forward scan of p starts.
Begin(p) ==
  IF query.mode = "fromOffset"
  THEN IF query.from <= Len(Log[p]) THEN query.from ELSE Len(Log[p])
  ELSE 0

\* What a bounded forward window is to show.
Due == {r \in query.partitions \X Offsets :
          Begin(r[1]) <= r[2] /\ r[2] < Len(Log[r[1]]) /\ Kept(r[1], r[2])}

Before(r, s)  == r[1] = s[1] /\ r[2] < s[2]
Earlier(r)    == {d \in Due : Before(d, r)}
Ascending(rs) == \A i, j \in 1 .. Len(rs) : i < j /\ rs[i][1] = rs[j][1] => rs[i][2] < rs[j][2]

\* A batch of rows a frame may carry.
Batches ==
  {rs \in Seq(RowId) : /\ ~Backward => Ascending(rs)
                       /\ Forward => Range(rs) \subseteq Due}

\* What the pump and the writer say.
Frames ==
  [kind : {"messages"}, body : Batches \ {<<>>}] \cup [kind : {"dropped"}, body : Nat \ {0}]
    \cup [kind : {"phase"}, body : {"seeking", "streaming", "done"}]
    \cup [kind : {"error", "progress", "resolved"}, body : {NoId}]
    \cup [kind : {"resumed"}, body : RowId]

RowsOf(f)   == IF f.kind = "messages" THEN Range(f.body) ELSE {}
AllRows(fs) == UNION {RowsOf(fs[i]) : i \in 1 .. Len(fs)}
UpTo(fs, i) == UNION {RowsOf(fs[j]) : j \in 1 .. i}

\* Frames the writer has yet to write.
Coming == writing \o queue \o outbox

\* The reader is about to be told of drops.
Noticed == wire # <<>> /\ wire[1].kind = "dropped"

\* All that is still to be read.
Pending == wire \o Coming

\* fs holds no `done`; fs ends with its only one.
NoDone(fs) == \A i \in 1 .. Len(fs) : fs[i] # Done
Ends(fs)   == fs # <<>> /\ \A i \in 1 .. Len(fs) : fs[i] = Done <=> i = Len(fs)

\* What is due before a row of fs is in base or comes with or before it.
Covers(base, fs) ==
  \A i \in 1 .. Len(fs) : \A r \in RowsOf(fs[i]) : Earlier(r) \subseteq base \cup UpTo(fs, i)

\* The rows of fs come after those of base, and frame after frame.
Ascends(base, fs) ==
  \A i \in 1 .. Len(fs) : \A s \in RowsOf(fs[i]), r \in base \cup UpTo(fs, i - 1) :
    r[1] = s[1] => r[2] < s[2]

OnScreen == Range(rows)
Written  == OnScreen \cup AllRows(wire)
Sent     == Written \cup AllRows(Coming)

\* Types, and that the ids of the connection are of rows on the screen.
TypeInv ==
  /\ query \in Queries
  /\ wire \in Seq(Frames) /\ writing \in Seq(Frames)
  /\ queue \in Seq(Frames) /\ outbox \in Seq(Frames)
  /\ Len(writing) <= 1 /\ Len(queue) <= Capacity
  /\ dropped \in Nat /\ told \in Nat /\ shown \in Nat /\ told <= dropped
  /\ cursor \in [Partitions -> Nat]
  /\ batch \in Batches /\ rows \in Seq(RowId) /\ owed \subseteq RowId
  /\ lastId = NoId \/ lastId \in OnScreen
  /\ resume = NoId \/ resume \in OnScreen

\* The pump has said `done`.
Closing == pump \in {"closing", "ended"}

\* What is said of `done`, and who has gone.
EndInv ==
  /\ pump \in {"starting", "resolving", "opening", "scanning", "closing", "ended"}
  /\ source \in {"open", "closed"}
  /\ senderGone <=> pump = "ended"
  /\ receiverGone <=> source = "closed"
  /\ pump = "ended" => outbox = <<>>
  /\ phase = "done" => source = "closed"
  /\ ~Closing => NoDone(Pending)
  /\ Closing /\ source = "open" => Ends(Pending)
  /\ source = "closed" => Closing /\ Pending = <<>>
  /\ Closing /\ Coming = <<>> => told = dropped

\* What is on the wire, and what was told of drops.
WireInv ==
  /\ wire # <<>> => writing = <<>>
  /\ Len(wire) <= 2
  /\ Len(wire) = 2 => Noticed
  /\ told > 0 => shown > 0 \/ Noticed

\* What the scan has read and holds.
ScanInv ==
  /\ pump \in {"starting", "resolving", "opening"} => batch = <<>> /\ owed = {}
  /\ pump = "scanning" => ~Backward
  /\ Closing /\ ~cut => batch = <<>> /\ Bounded
  /\ \A r \in Range(batch) : r[2] < cursor[r[1]]
  /\ Forward /\ pump = "scanning" =>
       /\ \A p \in query.partitions : Begin(p) <= cursor[p]
       /\ \A d \in Due : d[2] < cursor[d[1]] => d \in owed

\* Nothing owed is missing, and nothing is missing before a row.
CoverInv ==
  /\ Bounded /\ shown = 0 /\ dropped = 0 => owed \subseteq Sent \cup Range(batch)
  /\ Forward /\ shown = 0 =>
       /\ OnScreen \subseteq Due
       /\ \A r \in OnScreen : Earlier(r) \subseteq OnScreen
       /\ ~Noticed => \A r \in AllRows(wire) : Earlier(r) \subseteq Written
       /\ dropped = 0 => Covers(Written, Coming)

\* A live stream ascends, over reconnects too.
LiveInv ==
  Live =>
    /\ \A r \in Sent : r[2] < cursor[r[1]]
    /\ \A s \in Range(batch), r \in Sent : r[1] = s[1] => r[2] < s[2]
    /\ Ascends(OnScreen, wire) /\ Ascends(Written, Coming)

\* The store holds a row once, in order unless drops are shown.
StoreInv ==
  /\ IsInjective(rows)
  /\ ~Backward /\ shown = 0 => Ascending(rows)

RankIn(S, i) == Cardinality({j \in S : j <= i})

\* The members of a finite set of numbers, by their rank.
LEMMA NthMember ==
  ASSUME NEW n \in Nat, NEW S \in SUBSET (1 .. n)
  PROVE  /\ Cardinality(S) \in Nat
         /\ \A k \in 1 .. Cardinality(S) : Nth(S, k) \in S
         /\ \A k, l \in 1 .. Cardinality(S) : k < l => Nth(S, k) < Nth(S, l)
         /\ \A i \in S : \E k \in 1 .. Cardinality(S) : Nth(S, k) = i
<1> DEFINE upTo(i) == {j \in S : j <= i}
           rank == [i \in S |-> RankIn(S, i)]
<1>1. PICK c : c = Cardinality(S)
  OBVIOUS
<1>2. IsFiniteSet(S) /\ c \in Nat
  <2>1. IsFiniteSet(1 .. n)
    BY FS_Interval
  <2> QED BY <1>1, <2>1, FS_Subset, FS_CardinalityType
<1>3. \A i \in S : i \in Nat
  OBVIOUS
<1>4. ASSUME NEW i \in S PROVE IsFiniteSet(upTo(i)) /\ RankIn(S, i) \in Nat \ {0} /\ RankIn(S, i) <= c
  <2>1. upTo(i) \in SUBSET S /\ i \in upTo(i)
    OBVIOUS
  <2>2. IsFiniteSet(upTo(i)) /\ Cardinality(upTo(i)) <= c /\ Cardinality(upTo(i)) \in Nat
    BY <1>1, <1>2, <2>1, FS_Subset, FS_CardinalityType
  <2>3. Cardinality(upTo(i)) # 0
    BY <2>1, <2>2, FS_EmptySet
  <2> QED BY <2>2, <2>3 DEF RankIn
<1>5. ASSUME NEW i \in S PROVE RankIn(S, i) \in Nat /\ RankIn(S, i) \in 1 .. c
  <2>1. PICK r : r = RankIn(S, i)
    OBVIOUS
  <2>2. r \in Nat \ {0} /\ r <= c
    BY <1>4, <2>1
  <2> QED BY <1>2, <2>1, <2>2
<1>6. ASSUME NEW i \in S, NEW j \in S, i < j PROVE RankIn(S, i) < RankIn(S, j)
  <2>1. i \in Nat /\ j \in Nat
    BY <1>3
  <2>2. \A k \in upTo(i) : k \in upTo(j)
    <3>1. \A k \in Nat : k <= i => k <= j
      BY <2>1, <1>6
    <3> QED BY <1>3, <3>1
  <2>3. j \in upTo(j) /\ j \notin upTo(i)
    BY <2>1, <1>6
  <2>4. Cardinality(upTo(i)) <= Cardinality(upTo(j)) /\ Cardinality(upTo(i)) # Cardinality(upTo(j))
    <3>1. upTo(i) \in SUBSET upTo(j) /\ upTo(i) # upTo(j) /\ IsFiniteSet(upTo(j))
      BY <1>4, <2>2, <2>3
    <3> HIDE DEF upTo
    <3> QED BY <3>1, FS_Subset
  <2>5. RankIn(S, i) <= RankIn(S, j) /\ RankIn(S, i) # RankIn(S, j)
    BY <2>4 DEF RankIn
  <2>6. RankIn(S, i) \in Nat /\ RankIn(S, j) \in Nat
    BY <1>5
  <2> QED BY <2>5, <2>6
<1>7. \A i, j \in S : RankIn(S, i) = RankIn(S, j) => i = j
  <2> SUFFICES ASSUME NEW i \in S, NEW j \in S, RankIn(S, i) = RankIn(S, j) PROVE i = j
    OBVIOUS
  <2>1. i \in Nat /\ j \in Nat /\ RankIn(S, i) \in Nat /\ RankIn(S, j) \in Nat
    BY <1>3, <1>5
  <2>2. ~(i < j) /\ ~(j < i)
    BY <1>6, <2>1
  <2> QED BY <2>1, <2>2
<1>8. \A k \in 1 .. c : \E i \in S : RankIn(S, i) = k
  <2>1. rank \in Injection(S, 1 .. c)
    BY <1>5, <1>7 DEF Injection, IsInjective
  <2>2. IsFiniteSet(1 .. c) /\ Cardinality(1 .. c) = c
    BY <1>2, FS_Interval
  <2>3. rank \in Surjection(S, 1 .. c)
    <3> HIDE DEF rank
    <3> QED BY <1>1, <2>1, <2>2, FS_Injection
  <2> QED BY <2>3 DEF Surjection
<1>9. \A k \in 1 .. c : Nth(S, k) \in S /\ RankIn(S, Nth(S, k)) = k
  BY <1>8 DEF Nth, RankIn
<1>10. ASSUME NEW k \in 1 .. c, NEW l \in 1 .. c, k < l PROVE Nth(S, k) < Nth(S, l)
  <2>1. PICK a, b : a = Nth(S, k) /\ b = Nth(S, l)
    OBVIOUS
  <2>2. a \in S /\ b \in S /\ RankIn(S, a) = k /\ RankIn(S, b) = l
    BY <1>9, <2>1
  <2>3. a \in Nat /\ b \in Nat /\ k \in Nat /\ l \in Nat
    BY <1>2, <1>3, <2>2
  <2>4. a # b /\ (b < a => l < k)
    BY <1>6, <2>2, <2>3, <1>10
  <2> QED BY <2>1, <2>3, <2>4, <1>10
<1>11. \A i \in S : Nth(S, RankIn(S, i)) = i /\ RankIn(S, i) \in 1 .. c
  BY <1>5, <1>7, <1>9
<1> QED BY <1>1, <1>2, <1>9, <1>10, <1>11

\* The first of them is the least.
LEMMA LeastMember ==
  ASSUME NEW n \in Nat, NEW S \in SUBSET (1 .. n), S # {}
  PROVE  \E i \in S : \A j \in S : i <= j
<1>1. PICK c : c = Cardinality(S)
  OBVIOUS
<1>2. /\ c \in Nat
      /\ \A k \in 1 .. c : Nth(S, k) \in S
      /\ \A k, l \in 1 .. c : k < l => Nth(S, k) < Nth(S, l)
      /\ \A i \in S : \E k \in 1 .. c : Nth(S, k) = i
  BY <1>1, NthMember
<1>3. 1 \in 1 .. c
  <2>1. PICK i \in S : TRUE
    OBVIOUS
  <2>2. PICK k \in 1 .. c : Nth(S, k) = i
    BY <1>2
  <2> QED BY <1>2, <2>2
<1>4. PICK i : i = Nth(S, 1)
  OBVIOUS
<1>5. ASSUME NEW j \in S PROVE i <= j
  <2>1. PICK k \in 1 .. c : Nth(S, k) = j
    BY <1>2
  <2>2. i \in Nat /\ j \in Nat
    <3>1. i \in S
      BY <1>2, <1>3, <1>4
    <3> QED BY <3>1
  <2>3. CASE k = 1
    BY <1>4, <2>1, <2>2, <2>3
  <2>4. CASE 1 < k
    <3>1. Nth(S, 1) < Nth(S, k)
      BY <1>2, <1>3, <2>1, <2>4
    <3> QED BY <1>4, <2>1, <2>2, <3>1
  <2> QED BY <1>2, <2>1, <2>3, <2>4
<1> QED BY <1>2, <1>3, <1>4, <1>5

\* st is held, then the rows of rs at c positions: those of new, ascending.
Extends(st, held, rs, new, c, pos) ==
  /\ c \in Nat /\ st \in Seq(RowId) /\ Len(st) = Len(held) + c
  /\ \A i \in 1 .. Len(held) : st[i] = held[i]
  /\ \A k \in 1 .. c : st[Len(held) + k] = rs[pos[k]]
  /\ \A k \in 1 .. c : pos[k] \in new
  /\ \A k, l \in 1 .. c : k < l => pos[k] < pos[l]
  /\ \A i \in new : \E k \in 1 .. c : pos[k] = i

\* Stored does extend what it holds so.
LEMMA StoredAt ==
  ASSUME NEW held \in Seq(RowId), NEW rs \in Seq(RowId)
  PROVE  \E c, pos : Extends(Stored(held, rs), held, rs, Unseen(held, rs), c, pos)
<1>1. PICK U : U = Unseen(held, rs)
  OBVIOUS
<1>2. PICK c : c = Cardinality(U)
  OBVIOUS
<1>3. PICK m : m = Len(rs)
  OBVIOUS
<1>4. m \in Nat /\ U \in SUBSET (1 .. m)
  BY <1>1, <1>3 DEF Unseen
<1>5. /\ c \in Nat
      /\ \A k \in 1 .. c : Nth(U, k) \in U
      /\ \A k, l \in 1 .. c : k < l => Nth(U, k) < Nth(U, l)
      /\ \A i \in U : \E k \in 1 .. c : Nth(U, k) = i
  BY <1>2, <1>4, NthMember
<1>6. PICK pos : pos = [k \in 1 .. c |-> Nth(U, k)]
  OBVIOUS
<1>7. \A k \in 1 .. c : pos[k] = Nth(U, k)
  BY <1>6
<1>8. /\ \A k \in 1 .. c : pos[k] \in U
      /\ \A k, l \in 1 .. c : k < l => pos[k] < pos[l]
      /\ \A i \in U : \E k \in 1 .. c : pos[k] = i
  BY <1>5, <1>7
<1>9. \A k \in 1 .. c : pos[k] \in 1 .. m /\ rs[pos[k]] \in RowId
  <2>1. \A k \in 1 .. c : pos[k] \in 1 .. m
    BY <1>4, <1>8
  <2> QED BY <2>1, <1>3, ElementOfSeq
<1>10. PICK t : t = [k \in 1 .. c |-> rs[Nth(U, k)]]
  OBVIOUS
<1>11. \A k \in 1 .. c : t[k] = rs[pos[k]]
  BY <1>7, <1>10
<1>12. t \in Seq(RowId) /\ Len(t) = c
  BY <1>5, <1>7, <1>9, <1>10
<1>13. Stored(held, rs) = held \o t
  BY <1>1, <1>2, <1>10 DEF Stored
<1>14. /\ held \o t \in Seq(RowId)
       /\ Len(held \o t) = Len(held) + c
       /\ \A i \in 1 .. Len(held) + c : (held \o t)[i] = IF i <= Len(held) THEN held[i] ELSE t[i - Len(held)]
  BY <1>12, ConcatProperties
<1>15. PICK st, h : st = held \o t /\ h = Len(held)
  OBVIOUS
<1>16. /\ h \in Nat /\ st \in Seq(RowId) /\ Len(st) = h + c
       /\ \A i \in 1 .. h + c : st[i] = IF i <= h THEN held[i] ELSE t[i - h]
  BY <1>14, <1>15
<1>17. \A i \in 1 .. h : st[i] = held[i]
  BY <1>5, <1>16
<1>18. \A k \in 1 .. c : st[h + k] = rs[pos[k]]
  <2> SUFFICES ASSUME NEW k \in 1 .. c PROVE st[h + k] = rs[pos[k]]
    OBVIOUS
  <2>1. h + k \in 1 .. h + c /\ ~(h + k <= h) /\ (h + k) - h = k
    BY <1>5, <1>16
  <2>2. st[h + k] = t[(h + k) - h]
    BY <1>16, <2>1
  <2> QED BY <1>11, <2>1, <2>2
<1>19. Extends(st, held, rs, U, c, pos)
  BY <1>5, <1>8, <1>15, <1>16, <1>17, <1>18 DEF Extends
<1> QED BY <1>1, <1>13, <1>15, <1>19

\* Storing a batch adds what it holds and stores nothing twice; a batch in
\* order after what is held keeps the store in order.
LEMMA StoredRows ==
  ASSUME NEW held \in Seq(RowId), NEW rs \in Seq(RowId)
  PROVE  /\ Stored(held, rs) \in Seq(RowId)
         /\ Range(Stored(held, rs)) = Range(held) \cup Range(rs)
         /\ IsInjective(held) => IsInjective(Stored(held, rs))
         /\ Ascending(held) /\ Ascending(rs)
            /\ (\A h \in Range(held), r \in Range(rs) : r \notin Range(held) /\ h[1] = r[1] => h[2] < r[2])
            => Ascending(Stored(held, rs))
<1>1. PICK st, U, n, m : st = Stored(held, rs) /\ U = Unseen(held, rs) /\ n = Len(held) /\ m = Len(rs)
  OBVIOUS
<1>2. PICK c, pos : Extends(st, held, rs, U, c, pos)
  BY <1>1, StoredAt
<1>3. /\ n \in Nat /\ m \in Nat /\ c \in Nat /\ st \in Seq(RowId) /\ Len(st) = n + c
      /\ \A i \in 1 .. n : st[i] = held[i]
      /\ \A k \in 1 .. c : st[n + k] = rs[pos[k]]
      /\ \A k \in 1 .. c : pos[k] \in U
      /\ \A k, l \in 1 .. c : k < l => pos[k] < pos[l]
      /\ \A i \in U : \E k \in 1 .. c : pos[k] = i
  BY <1>1, <1>2 DEF Extends
<1>4. \A i \in U : i \in 1 .. m /\ rs[i] \notin Range(held) /\ \A j \in 1 .. m : j < i => rs[j] # rs[i]
  <2> SUFFICES ASSUME NEW i \in U
               PROVE  i \in 1 .. m /\ rs[i] \notin Range(held) /\ \A j \in 1 .. m : j < i => rs[j] # rs[i]
    OBVIOUS
  <2>1. i \in 1 .. m /\ ~Contains(held, rs[i]) /\ \A j \in 1 .. i - 1 : rs[j] # rs[i]
    BY <1>1 DEF Unseen
  <2>2. \A j \in 1 .. m : j < i => j \in 1 .. i - 1
    BY <1>3, <2>1
  <2>3. rs[i] \notin Range(held)
    BY <2>1, RangeEquality DEF Contains
  <2> QED BY <2>1, <2>2, <2>3
<1>5. Range(held) = {held[i] : i \in 1 .. n} /\ Range(rs) = {rs[i] : i \in 1 .. m} /\ Range(st) = {st[i] : i \in 1 .. n + c}
  <2>1. Range(held) = {held[i] : i \in 1 .. n}
    BY <1>1, RangeEquality
  <2>2. Range(rs) = {rs[i] : i \in 1 .. m}
    BY <1>1, RangeEquality
  <2>3. Range(st) = {st[i] : i \in 1 .. n + c}
    <3>1. PICK l : l = n + c
      OBVIOUS
    <3>2. Range(st) = {st[i] : i \in 1 .. Len(st)} /\ Len(st) = l
      BY <1>3, <3>1, RangeEquality
    <3> QED BY <3>1, <3>2
  <2> QED BY <2>1, <2>2, <2>3
<1>6. \A a \in 1 .. n + c : a \in 1 .. n \/ \E k \in 1 .. c : a = n + k
  <2> SUFFICES ASSUME NEW a \in 1 .. n + c, a \notin 1 .. n PROVE \E k \in 1 .. c : a = n + k
    OBVIOUS
  <2>1. a - n \in 1 .. c /\ a = n + (a - n)
    BY <1>3
  <2> QED BY <2>1
<1>7. ASSUME NEW i \in 1 .. m, rs[i] \notin Range(held) PROVE \E k \in 1 .. c : rs[pos[k]] = rs[i]
  <2>1. PICK F : F = {j \in 1 .. m : rs[j] = rs[i]}
    OBVIOUS
  <2>2. PICK j \in F : \A l \in F : j <= l
    <3>1. F \in SUBSET (1 .. m) /\ F # {}
      BY <2>1
    <3> QED BY <1>3, <3>1, LeastMember
  <2>3. j \in 1 .. m /\ rs[j] = rs[i] /\ j \in Nat
    BY <1>3, <2>1, <2>2
  <2>4. \A l \in 1 .. j - 1 : rs[l] # rs[j]
    <3> SUFFICES ASSUME NEW l \in 1 .. j - 1, rs[l] = rs[j] PROVE FALSE
      OBVIOUS
    <3>1. l \in 1 .. m /\ ~(j <= l)
      BY <1>3, <2>3
    <3> QED BY <2>1, <2>2, <2>3, <3>1
  <2>5. j \in U
    <3>1. ~Contains(held, rs[j])
      BY <1>7, <2>3, RangeEquality DEF Contains
    <3> QED BY <1>1, <2>3, <2>4, <3>1 DEF Unseen
  <2>6. PICK k \in 1 .. c : pos[k] = j
    BY <1>3, <2>5
  <2> QED BY <2>3, <2>6
<1>8. Range(st) = Range(held) \cup Range(rs)
  <2>1. ASSUME NEW x \in Range(st) PROVE x \in Range(held) \cup Range(rs)
    <3>1. PICK a \in 1 .. n + c : x = st[a]
      BY <1>5
    <3>2. CASE a \in 1 .. n
      BY <1>3, <1>5, <3>1, <3>2
    <3>3. CASE \E k \in 1 .. c : a = n + k
      <4>1. PICK k \in 1 .. c : a = n + k
        BY <3>3
      <4>2. x = rs[pos[k]] /\ pos[k] \in 1 .. m
        BY <1>3, <1>4, <3>1, <4>1
      <4> QED BY <1>5, <4>2
    <3> QED BY <1>6, <3>2, <3>3
  <2>2. ASSUME NEW x \in Range(held) PROVE x \in Range(st)
    <3>1. PICK a \in 1 .. n : x = held[a]
      BY <1>5
    <3>2. a \in 1 .. n + c /\ x = st[a]
      BY <1>3, <3>1
    <3> QED BY <1>5, <3>2
  <2>3. ASSUME NEW x \in Range(rs), x \notin Range(held) PROVE x \in Range(st)
    <3>1. PICK i \in 1 .. m : x = rs[i]
      BY <1>5, <2>3
    <3>2. PICK k \in 1 .. c : rs[pos[k]] = x
      BY <1>7, <2>3, <3>1
    <3>3. n + k \in 1 .. n + c /\ st[n + k] = x
      BY <1>3, <3>2
    <3> QED BY <1>5, <3>3
  <2> QED BY <2>1, <2>2, <2>3
<1>9. ASSUME NEW a \in 1 .. n, NEW k \in 1 .. c
      PROVE  st[a] \in Range(held) /\ st[n + k] \in Range(rs) \ Range(held)
  <2>1. pos[k] \in 1 .. m /\ rs[pos[k]] \notin Range(held)
    BY <1>3, <1>4
  <2> QED BY <1>3, <1>5, <2>1
<1>10. ASSUME IsInjective(held) PROVE IsInjective(st)
  <2>1. \A a, b \in 1 .. n : st[a] = st[b] => a = b
    <3>1. DOMAIN held = 1 .. n
      BY <1>1
    <3> QED BY <1>3, <1>10, <3>1 DEF IsInjective
  <2>2. \A k, l \in 1 .. c : st[n + k] = st[n + l] => k = l
    <3> SUFFICES ASSUME NEW k \in 1 .. c, NEW l \in 1 .. c, k < l, st[n + k] = st[n + l] PROVE FALSE
      BY <1>3
    <3>1. pos[k] < pos[l] /\ pos[k] \in 1 .. m /\ pos[l] \in U
      BY <1>3, <1>4
    <3>2. st[n + k] = rs[pos[k]] /\ st[n + l] = rs[pos[l]]
      BY <1>3
    <3>3. rs[pos[k]] # rs[pos[l]]
      BY <1>4, <3>1
    <3> QED BY <3>2, <3>3
  <2>3. \A a \in 1 .. n, k \in 1 .. c : st[a] # st[n + k]
    BY <1>9
  <2>4. \A a, b \in 1 .. n + c : st[a] = st[b] => a = b
    BY <1>6, <2>1, <2>2, <2>3
  <2>5. DOMAIN st = 1 .. n + c
    BY <1>3
  <2> QED BY <2>4, <2>5 DEF IsInjective
<1>11. ASSUME Ascending(held), Ascending(rs),
              \A h \in Range(held), r \in Range(rs) : r \notin Range(held) /\ h[1] = r[1] => h[2] < r[2]
       PROVE  Ascending(st)
  <2> SUFFICES ASSUME NEW a \in 1 .. n + c, NEW b \in 1 .. n + c, a < b, st[a][1] = st[b][1]
               PROVE  st[a][2] < st[b][2]
    BY <1>3 DEF Ascending
  <2>1. CASE a \in 1 .. n /\ b \in 1 .. n
    BY <1>1, <1>3, <1>11, <2>1 DEF Ascending
  <2>2. ASSUME a \in 1 .. n, NEW k \in 1 .. c, b = n + k PROVE st[a][2] < st[b][2]
    BY <1>9, <1>11, <2>2
  <2>3. ASSUME NEW k \in 1 .. c, NEW l \in 1 .. c, a = n + k, b = n + l PROVE st[a][2] < st[b][2]
    <3>1. k < l
      BY <1>3, <2>3
    <3>2. pos[k] < pos[l] /\ pos[k] \in 1 .. m /\ pos[l] \in 1 .. m
      BY <1>3, <1>4, <3>1
    <3>3. st[a] = rs[pos[k]] /\ st[b] = rs[pos[l]]
      BY <1>3, <2>3
    <3> QED BY <1>1, <1>11, <3>2, <3>3 DEF Ascending
  <2>4. ~(a \notin 1 .. n /\ b \in 1 .. n)
    BY <1>3
  <2> QED BY <1>6, <2>1, <2>2, <2>3, <2>4
<1> QED BY <1>1, <1>3, <1>8, <1>10, <1>11

-----------------------------------------------------------------------------
(***************************************************************************)
(* Frames in a row                                                         *)
(***************************************************************************)

\* The frames of s, then those of t, one by one.
LEMMA ConcatAt ==
  ASSUME NEW F, NEW s \in Seq(F), NEW t \in Seq(F)
  PROVE  /\ s \o t \in Seq(F)
         /\ Len(s) \in Nat /\ Len(t) \in Nat /\ Len(s \o t) = Len(s) + Len(t)
         /\ \A i \in 1 .. Len(s) : (s \o t)[i] = s[i]
         /\ \A i \in 1 .. Len(t) : (s \o t)[Len(s) + i] = t[i]
         /\ \A i \in 1 .. Len(s \o t) : i \in 1 .. Len(s) \/ \E j \in 1 .. Len(t) : i = Len(s) + j
<1>1. PICK n, m, u : n = Len(s) /\ m = Len(t) /\ u = s \o t
  OBVIOUS
<1>2. /\ n \in Nat /\ m \in Nat /\ u \in Seq(F) /\ Len(u) = n + m
      /\ \A i \in 1 .. n + m : u[i] = IF i <= n THEN s[i] ELSE t[i - n]
  BY <1>1, ConcatProperties
<1>3. \A i \in 1 .. n : u[i] = s[i]
  BY <1>2
<1>4. \A i \in 1 .. m : u[n + i] = t[i]
  <2> SUFFICES ASSUME NEW i \in 1 .. m PROVE u[n + i] = t[i]
    OBVIOUS
  <2>1. n + i \in 1 .. n + m /\ ~(n + i <= n) /\ (n + i) - n = i
    BY <1>2
  <2> QED BY <1>2, <2>1
<1>5. \A i \in 1 .. n + m : i \in 1 .. n \/ \E j \in 1 .. m : i = n + j
  <2> SUFFICES ASSUME NEW i \in 1 .. n + m, i \notin 1 .. n PROVE \E j \in 1 .. m : i = n + j
    OBVIOUS
  <2>1. i - n \in 1 .. m /\ i = n + (i - n)
    BY <1>2
  <2> QED BY <2>1
<1> QED BY <1>1, <1>2, <1>3, <1>4, <1>5

\* The rows of two runs of frames.
LEMMA RowsConcat ==
  ASSUME NEW F, NEW s \in Seq(F), NEW t \in Seq(F)
  PROVE  /\ AllRows(s \o t) = AllRows(s) \cup AllRows(t)
         /\ \A i \in 1 .. Len(s) : UpTo(s \o t, i) = UpTo(s, i) /\ UpTo(s \o t, i - 1) = UpTo(s, i - 1)
         /\ \A j \in 1 .. Len(t) : /\ UpTo(s \o t, Len(s) + j) = AllRows(s) \cup UpTo(t, j)
                                   /\ UpTo(s \o t, Len(s) + j - 1) = AllRows(s) \cup UpTo(t, j - 1)
<1>1. PICK n, m, u : n = Len(s) /\ m = Len(t) /\ u = s \o t
  OBVIOUS
<1>2. /\ n \in Nat /\ m \in Nat /\ Len(u) = n + m
      /\ \A i \in 1 .. n : u[i] = s[i]
      /\ \A i \in 1 .. m : u[n + i] = t[i]
  BY <1>1, ConcatAt
<1>3. ASSUME NEW k \in Nat, k <= n PROVE UpTo(u, k) = UpTo(s, k)
  <2>1. \A i \in 1 .. k : i \in 1 .. n
    BY <1>2, <1>3
  <2> QED BY <1>2, <2>1 DEF UpTo
<1>4. ASSUME NEW k \in Nat, k <= m PROVE UpTo(u, n + k) = AllRows(s) \cup UpTo(t, k)
  <2>1. \A i \in 1 .. n + k : i \in 1 .. n \/ \E j \in 1 .. k : i = n + j
    <3> SUFFICES ASSUME NEW i \in 1 .. n + k, i \notin 1 .. n PROVE \E j \in 1 .. k : i = n + j
      OBVIOUS
    <3>1. i - n \in 1 .. k /\ i = n + (i - n)
      BY <1>2
    <3> QED BY <3>1
  <2>2. \A i \in 1 .. n : i \in 1 .. n + k
    BY <1>2
  <2>3. \A j \in 1 .. k : n + j \in 1 .. n + k /\ j \in 1 .. m
    BY <1>2, <1>4
  <2>4. ASSUME NEW x \in UpTo(u, n + k) PROVE x \in AllRows(s) \cup UpTo(t, k)
    <3>1. PICK i \in 1 .. n + k : x \in RowsOf(u[i])
      BY DEF UpTo
    <3>2. CASE i \in 1 .. n
      BY <1>1, <1>2, <3>1, <3>2 DEF AllRows
    <3>3. CASE \E j \in 1 .. k : i = n + j
      BY <1>2, <2>3, <3>1, <3>3 DEF UpTo
    <3> QED BY <2>1, <3>2, <3>3
  <2>5. ASSUME NEW x \in AllRows(s) PROVE x \in UpTo(u, n + k)
    <3>1. PICK i \in 1 .. n : x \in RowsOf(s[i])
      BY <1>1 DEF AllRows
    <3> QED BY <1>2, <2>2, <3>1 DEF UpTo
  <2>6. ASSUME NEW x \in UpTo(t, k) PROVE x \in UpTo(u, n + k)
    <3>1. PICK j \in 1 .. k : x \in RowsOf(t[j])
      BY DEF UpTo
    <3> QED BY <1>2, <2>3, <3>1 DEF UpTo
  <2> QED BY <2>4, <2>5, <2>6
<1>5. AllRows(u) = UpTo(u, n + m) /\ AllRows(t) = UpTo(t, m)
  BY <1>1, <1>2 DEF AllRows, UpTo
<1>6. AllRows(u) = AllRows(s) \cup AllRows(t)
  BY <1>2, <1>4, <1>5
<1>7. \A i \in 1 .. n : i \in Nat /\ i <= n /\ i - 1 \in Nat /\ i - 1 <= n
  BY <1>2
<1>8. \A j \in 1 .. m : j \in Nat /\ j <= m /\ j - 1 \in Nat /\ j - 1 <= m /\ n + j - 1 = n + (j - 1)
  BY <1>2
<1>9. \A i \in 1 .. n : UpTo(u, i) = UpTo(s, i) /\ UpTo(u, i - 1) = UpTo(s, i - 1)
  BY <1>3, <1>7
<1>10. \A j \in 1 .. m : /\ UpTo(u, n + j) = AllRows(s) \cup UpTo(t, j)
                         /\ UpTo(u, n + j - 1) = AllRows(s) \cup UpTo(t, j - 1)
  BY <1>4, <1>8
<1> QED BY <1>1, <1>6, <1>9, <1>10

\* The rows of no frame, and of one.
LEMMA FewRows ==
  ASSUME NEW f
  PROVE  AllRows(<<>>) = {} /\ AllRows(<<f>>) = RowsOf(f) /\ UpTo(<<f>>, 1) = RowsOf(f) /\ UpTo(<<f>>, 0) = {}
<1>1. 1 .. 0 = {} /\ 1 .. 1 = {1} /\ Len(<<f>>) = 1 /\ <<f>>[1] = f
  OBVIOUS
<1>2. AllRows(<<>>) = {}
  BY <1>1 DEF AllRows
<1> QED BY <1>1, <1>2 DEF AllRows, UpTo

\* Covering frame after frame.
LEMMA CoversConcat ==
  ASSUME NEW base, NEW F, NEW s \in Seq(F), NEW t \in Seq(F)
  PROVE  Covers(base, s \o t) <=> Covers(base, s) /\ Covers(base \cup AllRows(s), t)
<1>1. PICK n, m, u : n = Len(s) /\ m = Len(t) /\ u = s \o t
  OBVIOUS
<1>2. /\ n \in Nat /\ m \in Nat /\ Len(u) = n + m
      /\ \A i \in 1 .. n : u[i] = s[i] /\ UpTo(u, i) = UpTo(s, i)
      /\ \A j \in 1 .. m : u[n + j] = t[j] /\ UpTo(u, n + j) = AllRows(s) \cup UpTo(t, j)
      /\ \A i \in 1 .. n + m : i \in 1 .. n \/ \E j \in 1 .. m : i = n + j
  <2>1. /\ n \in Nat /\ m \in Nat /\ Len(u) = n + m
        /\ \A i \in 1 .. n : u[i] = s[i]
        /\ \A j \in 1 .. m : u[n + j] = t[j]
        /\ \A i \in 1 .. Len(u) : i \in 1 .. n \/ \E j \in 1 .. m : i = n + j
    BY <1>1, ConcatAt
  <2>2. /\ \A i \in 1 .. n : UpTo(u, i) = UpTo(s, i)
        /\ \A j \in 1 .. m : UpTo(u, n + j) = AllRows(s) \cup UpTo(t, j)
    BY <1>1, RowsConcat
  <2> QED BY <2>1, <2>2
<1>3. \A i \in 1 .. n : i \in 1 .. n + m
  BY <1>2
<1>4. \A j \in 1 .. m : n + j \in 1 .. n + m
  BY <1>2
<1>5. Covers(base, u) <=> \A i \in 1 .. n + m : \A r \in RowsOf(u[i]) : Earlier(r) \subseteq base \cup UpTo(u, i)
  BY <1>2 DEF Covers
<1>6. Covers(base, s) <=> \A i \in 1 .. n : \A r \in RowsOf(s[i]) : Earlier(r) \subseteq base \cup UpTo(s, i)
  BY <1>1 DEF Covers
<1>7. Covers(base \cup AllRows(s), t) <=>
        \A j \in 1 .. m : \A r \in RowsOf(t[j]) : Earlier(r) \subseteq (base \cup AllRows(s)) \cup UpTo(t, j)
  BY <1>1 DEF Covers
<1>8. ASSUME Covers(base, u) PROVE Covers(base, s) /\ Covers(base \cup AllRows(s), t)
  <2>1. Covers(base, s)
    BY <1>2, <1>3, <1>5, <1>6, <1>8
  <2>2. ASSUME NEW j \in 1 .. m, NEW r \in RowsOf(t[j])
        PROVE  Earlier(r) \subseteq (base \cup AllRows(s)) \cup UpTo(t, j)
    <3>1. Earlier(r) \subseteq base \cup UpTo(u, n + j)
      BY <1>2, <1>4, <1>5, <1>8
    <3> QED BY <1>2, <3>1
  <2> QED BY <1>7, <2>1, <2>2
<1>9. ASSUME Covers(base, s), Covers(base \cup AllRows(s), t) PROVE Covers(base, u)
  <2>1. ASSUME NEW i \in 1 .. n, NEW r \in RowsOf(u[i]) PROVE Earlier(r) \subseteq base \cup UpTo(u, i)
    BY <1>2, <1>6, <1>9
  <2>2. ASSUME NEW j \in 1 .. m, NEW r \in RowsOf(u[n + j]) PROVE Earlier(r) \subseteq base \cup UpTo(u, n + j)
    <3>1. Earlier(r) \subseteq (base \cup AllRows(s)) \cup UpTo(t, j)
      BY <1>2, <1>7, <1>9
    <3> QED BY <1>2, <3>1
  <2> QED BY <1>2, <1>5, <2>1, <2>2
<1> QED BY <1>1, <1>8, <1>9

\* No frame covers; one frame does when its rows do.
LEMMA CoversFew ==
  ASSUME NEW base, NEW f
  PROVE  /\ Covers(base, <<>>)
         /\ Covers(base, <<f>>) <=> \A r \in RowsOf(f) : Earlier(r) \subseteq base \cup RowsOf(f)
<1>1. 1 .. 0 = {} /\ 1 .. 1 = {1} /\ Len(<<f>>) = 1 /\ <<f>>[1] = f
  OBVIOUS
<1>2. Covers(base, <<>>)
  BY <1>1 DEF Covers
<1> QED BY <1>1, <1>2, FewRows DEF Covers

\* Ascending frame after frame.
LEMMA AscendsConcat ==
  ASSUME NEW base, NEW F, NEW s \in Seq(F), NEW t \in Seq(F)
  PROVE  Ascends(base, s \o t) <=> Ascends(base, s) /\ Ascends(base \cup AllRows(s), t)
<1>1. PICK n, m, u : n = Len(s) /\ m = Len(t) /\ u = s \o t
  OBVIOUS
<1>2. /\ n \in Nat /\ m \in Nat /\ Len(u) = n + m
      /\ \A i \in 1 .. n : u[i] = s[i] /\ UpTo(u, i - 1) = UpTo(s, i - 1)
      /\ \A j \in 1 .. m : u[n + j] = t[j] /\ UpTo(u, n + j - 1) = AllRows(s) \cup UpTo(t, j - 1)
      /\ \A i \in 1 .. n + m : i \in 1 .. n \/ \E j \in 1 .. m : i = n + j
  <2>1. /\ n \in Nat /\ m \in Nat /\ Len(u) = n + m
        /\ \A i \in 1 .. n : u[i] = s[i]
        /\ \A j \in 1 .. m : u[n + j] = t[j]
        /\ \A i \in 1 .. Len(u) : i \in 1 .. n \/ \E j \in 1 .. m : i = n + j
    BY <1>1, ConcatAt
  <2>2. /\ \A i \in 1 .. n : UpTo(u, i - 1) = UpTo(s, i - 1)
        /\ \A j \in 1 .. m : UpTo(u, n + j - 1) = AllRows(s) \cup UpTo(t, j - 1)
    BY <1>1, RowsConcat
  <2> QED BY <2>1, <2>2
<1>3. \A i \in 1 .. n : i \in 1 .. n + m
  BY <1>2
<1>4. \A j \in 1 .. m : n + j \in 1 .. n + m
  BY <1>2
<1>5. Ascends(base, u) <=> \A i \in 1 .. n + m : \A a \in RowsOf(u[i]), r \in base \cup UpTo(u, i - 1) : r[1] = a[1] => r[2] < a[2]
  BY <1>2 DEF Ascends
<1>6. Ascends(base, s) <=> \A i \in 1 .. n : \A a \in RowsOf(s[i]), r \in base \cup UpTo(s, i - 1) : r[1] = a[1] => r[2] < a[2]
  BY <1>1 DEF Ascends
<1>7. Ascends(base \cup AllRows(s), t) <=>
        \A j \in 1 .. m : \A a \in RowsOf(t[j]), r \in (base \cup AllRows(s)) \cup UpTo(t, j - 1) : r[1] = a[1] => r[2] < a[2]
  BY <1>1 DEF Ascends
<1>8. ASSUME Ascends(base, u) PROVE Ascends(base, s) /\ Ascends(base \cup AllRows(s), t)
  <2>1. Ascends(base, s)
    BY <1>2, <1>3, <1>5, <1>6, <1>8
  <2>2. ASSUME NEW j \in 1 .. m, NEW a \in RowsOf(t[j]), NEW r \in (base \cup AllRows(s)) \cup UpTo(t, j - 1), r[1] = a[1]
        PROVE  r[2] < a[2]
    <3>1. PICK i \in 1 .. n + m : i = n + j
      BY <1>4
    <3>2. a \in RowsOf(u[i]) /\ r \in base \cup UpTo(u, i - 1)
      BY <1>2, <2>2, <3>1
    <3> QED BY <1>5, <1>8, <2>2, <3>2
  <2> QED BY <1>7, <2>1, <2>2
<1>9. ASSUME Ascends(base, s), Ascends(base \cup AllRows(s), t) PROVE Ascends(base, u)
  <2>1. ASSUME NEW i \in 1 .. n, NEW a \in RowsOf(u[i]), NEW r \in base \cup UpTo(u, i - 1), r[1] = a[1]
        PROVE  r[2] < a[2]
    BY <1>2, <1>6, <1>9, <2>1
  <2>2. ASSUME NEW i, NEW j \in 1 .. m, i = n + j, NEW a \in RowsOf(u[i]), NEW r \in base \cup UpTo(u, i - 1), r[1] = a[1]
        PROVE  r[2] < a[2]
    <3>1. a \in RowsOf(t[j]) /\ r \in (base \cup AllRows(s)) \cup UpTo(t, j - 1)
      BY <1>2, <2>2
    <3> QED BY <1>7, <1>9, <2>2, <3>1
  <2> QED BY <1>2, <1>5, <2>1, <2>2
<1> QED BY <1>1, <1>8, <1>9

\* No frame ascends; one frame does when its rows come after the base's.
LEMMA AscendsFew ==
  ASSUME NEW base, NEW f
  PROVE  /\ Ascends(base, <<>>)
         /\ Ascends(base, <<f>>) <=> \A s \in RowsOf(f), r \in base : r[1] = s[1] => r[2] < s[2]
<1>1. 1 .. 0 = {} /\ 1 .. 1 = {1} /\ Len(<<f>>) = 1 /\ <<f>>[1] = f /\ 1 - 1 = 0
  OBVIOUS
<1>2. Ascends(base, <<>>)
  BY <1>1 DEF Ascends
<1> QED BY <1>1, <1>2, FewRows DEF Ascends

\* Less behind them, frames that ascend still do.
LEMMA AscendsLess ==
  ASSUME NEW base, NEW less \in SUBSET base, NEW fs, Ascends(base, fs)
  PROVE  Ascends(less, fs)
BY DEF Ascends

\* More behind them, frames that cover still do.
LEMMA CoversMore ==
  ASSUME NEW base, NEW more, base \subseteq more, NEW fs, Covers(base, fs)
  PROVE  Covers(more, fs)
BY DEF Covers

\* The `done` of two runs of frames.
LEMMA DoneConcat ==
  ASSUME NEW F, NEW s \in Seq(F), NEW t \in Seq(F)
  PROVE  /\ NoDone(s \o t) <=> NoDone(s) /\ NoDone(t)
         /\ t # <<>> => (Ends(s \o t) <=> NoDone(s) /\ Ends(t))
<1>1. PICK n, m, u : n = Len(s) /\ m = Len(t) /\ u = s \o t
  OBVIOUS
<1>2. /\ n \in Nat /\ m \in Nat /\ Len(u) = n + m /\ u \in Seq(F)
      /\ \A i \in 1 .. n : u[i] = s[i]
      /\ \A j \in 1 .. m : u[n + j] = t[j]
      /\ \A i \in 1 .. n + m : i \in 1 .. n \/ \E j \in 1 .. m : i = n + j
  <2>1. /\ n \in Nat /\ m \in Nat /\ Len(u) = n + m /\ u \in Seq(F)
        /\ \A i \in 1 .. n : u[i] = s[i]
        /\ \A j \in 1 .. m : u[n + j] = t[j]
        /\ \A i \in 1 .. Len(u) : i \in 1 .. n \/ \E j \in 1 .. m : i = n + j
    BY <1>1, ConcatAt
  <2> QED BY <2>1
<1>3. \A i \in 1 .. n : i \in 1 .. n + m
  BY <1>2
<1>4. \A j \in 1 .. m : n + j \in 1 .. n + m
  BY <1>2
<1>5. NoDone(u) <=> \A i \in 1 .. n + m : u[i] # Done
  BY <1>2 DEF NoDone
<1>6. NoDone(s) <=> \A i \in 1 .. n : s[i] # Done
  BY <1>1 DEF NoDone
<1>7. NoDone(t) <=> \A j \in 1 .. m : t[j] # Done
  BY <1>1 DEF NoDone
<1>8. NoDone(u) <=> NoDone(s) /\ NoDone(t)
  <2>1. ASSUME NoDone(u) PROVE NoDone(s)
    BY <1>2, <1>3, <1>5, <1>6, <2>1
  <2>2. ASSUME NoDone(u) PROVE NoDone(t)
    BY <1>2, <1>4, <1>5, <1>7, <2>2
  <2>3. ASSUME NoDone(s), NoDone(t) PROVE NoDone(u)
    BY <1>2, <1>5, <1>6, <1>7, <2>3
  <2> QED BY <2>1, <2>2, <2>3
<1>9. ASSUME t # <<>> PROVE Ends(u) <=> NoDone(s) /\ Ends(t)
  <2>1. m > 0
    BY <1>1, <1>2, <1>9, EmptySeq
  <2>2. u # <<>>
    BY <1>2, <2>1
  <2>3. Ends(u) <=> \A i \in 1 .. n + m : u[i] = Done <=> i = n + m
    BY <1>2, <2>2 DEF Ends
  <2>4. Ends(t) <=> \A j \in 1 .. m : t[j] = Done <=> j = m
    BY <1>1, <1>9 DEF Ends
  <2>5. \A i \in 1 .. n : i # n + m
    BY <1>2, <2>1
  <2>6. \A j \in 1 .. m : n + j = n + m <=> j = m
    BY <1>2
  <2>7. ASSUME Ends(u) PROVE NoDone(s)
    BY <1>2, <1>3, <1>6, <2>3, <2>5, <2>7
  <2>8. ASSUME Ends(u) PROVE Ends(t)
    BY <1>2, <1>4, <2>3, <2>4, <2>6, <2>8
  <2>9. ASSUME NoDone(s), Ends(t) PROVE Ends(u)
    <3>1. \A i \in 1 .. n : u[i] = Done <=> i = n + m
      BY <1>2, <1>6, <2>5, <2>9
    <3>2. \A i \in 1 .. n + m : (\E j \in 1 .. m : i = n + j) => (u[i] = Done <=> i = n + m)
      BY <1>2, <2>4, <2>6, <2>9
    <3> QED BY <1>2, <2>3, <3>1, <3>2
  <2> QED BY <2>7, <2>8, <2>9
<1> QED BY <1>1, <1>8, <1>9

\* No frame, and one frame.
LEMMA DoneFew ==
  ASSUME NEW f
  PROVE  /\ NoDone(<<>>) /\ ~Ends(<<>>)
         /\ NoDone(<<f>>) <=> f # Done
         /\ Ends(<<f>>) <=> f = Done
<1>1. 1 .. 0 = {} /\ 1 .. 1 = {1} /\ Len(<<f>>) = 1 /\ <<f>>[1] = f /\ <<f>> # <<>>
  OBVIOUS
<1>2. NoDone(<<>>)
  BY <1>1 DEF NoDone
<1> QED BY <1>1, <1>2 DEF NoDone, Ends

\* A sequence is its head, then its tail.
LEMMA HeadThenTail ==
  ASSUME NEW F, NEW s \in Seq(F), s # <<>>
  PROVE  Head(s) \in F /\ Tail(s) \in Seq(F) /\ s = <<Head(s)>> \o Tail(s) /\ Head(s) = s[1]
<1>1. /\ Head(s) \in F /\ Tail(s) \in Seq(F) /\ Len(Tail(s)) = Len(s) - 1
      /\ \A i \in 1 .. Len(Tail(s)) : Tail(s)[i] = s[i + 1]
  BY HeadTailProperties
<1>2. Len(s) \in Nat \ {0} /\ Head(s) = s[1]
  BY EmptySeq
<1>3. PICK h, t, n, u : h = Head(s) /\ t = Tail(s) /\ n = Len(s) /\ u = <<h>> \o t
  OBVIOUS
<1>4. /\ u \in Seq(F) /\ Len(u) = 1 + Len(t)
      /\ u[1] = h /\ \A i \in 1 .. Len(t) : u[1 + i] = t[i]
  <2>1. <<h>> \in Seq(F) /\ Len(<<h>>) = 1 /\ <<h>>[1] = h
    BY <1>1, <1>3
  <2>2. 1 \in 1 .. 1
    OBVIOUS
  <2> QED BY <1>1, <1>3, <2>1, <2>2, ConcatAt
<1>5. \A i \in 1 .. n : u[i] = s[i]
  <2> SUFFICES ASSUME NEW i \in 1 .. n PROVE u[i] = s[i]
    OBVIOUS
  <2>1. CASE i = 1
    BY <1>2, <1>3, <1>4, <2>1
  <2>2. CASE i # 1
    <3>1. PICK k : k = i - 1
      OBVIOUS
    <3>2. k \in 1 .. Len(t) /\ 1 + k = i /\ k + 1 = i
      BY <1>1, <1>2, <1>3, <2>2, <3>1
    <3>3. t[k] = s[k + 1] /\ u[1 + k] = t[k]
      BY <1>1, <1>3, <1>4, <3>2
    <3> QED BY <3>2, <3>3
  <2> QED BY <2>1, <2>2
<1>6. u = s
  <2>1. Len(u) = Len(s)
    BY <1>1, <1>2, <1>3, <1>4
  <2> QED BY <1>3, <1>4, <1>5, <2>1, SeqEqual
<1> QED BY <1>1, <1>2, <1>3, <1>6

\* A push keeps what there is and the new frame, or drops the oldest.
LEMMA NewestOne ==
  ASSUME NEW F, NEW q \in Seq(F), NEW f \in F, Len(q) <= Capacity
  PROVE  LET a == Append(q, f)
         IN  /\ a = q \o <<f>> /\ a \in Seq(F) /\ a # <<>>
             /\ \/ Excess(a) = 0 /\ Newest(a) = a /\ Len(a) <= Capacity
                \/ Excess(a) = 1 /\ Newest(a) = Tail(a) /\ Tail(a) # <<>> /\ Len(Tail(a)) = Capacity
<1>1. PICK a : a = Append(q, f)
  OBVIOUS
<1>2. a \in Seq(F) /\ a # <<>> /\ Len(a) = Len(q) + 1 /\ Len(q) \in Nat /\ a = q \o <<f>>
  BY <1>1, AppendProperties, AppendIsConcat
<1>3. Capacity \in Nat \ {0}
  BY CapacityAssumption
<1>4. CASE Len(a) <= Capacity
  <2>1. Excess(a) = 0
    BY <1>2, <1>3, <1>4 DEF Excess
  <2>2. Newest(a) = SubSeq(a, 1, Len(a))
    BY <2>1 DEF Newest
  <2> QED BY <1>1, <1>2, <1>4, <2>1, <2>2, SubSeqFull
<1>5. CASE ~(Len(a) <= Capacity)
  <2>1. Excess(a) = 1 /\ Len(a) = Capacity + 1
    BY <1>2, <1>3, <1>5 DEF Excess
  <2>2. Newest(a) = SubSeq(a, 2, Len(a))
    BY <2>1 DEF Newest
  <2>3. Tail(a) = SubSeq(a, 2, Len(a))
    BY <1>2, TailIsSubSeq
  <2>4. Len(Tail(a)) = Capacity /\ Tail(a) # <<>>
    BY <1>2, <1>3, <2>1, HeadTailProperties
  <2> QED BY <1>1, <1>2, <2>1, <2>2, <2>3, <2>4
<1> QED BY <1>4, <1>5

\* Runs of frames, bracketed the way they are needed.
Cat(s, t) == s \o t

\* Two ways to bracket three runs.
LEMMA Associative ==
  ASSUME NEW F, NEW s \in Seq(F), NEW t \in Seq(F), NEW u \in Seq(F)
  PROVE  Cat(Cat(s, t), u) = Cat(s, Cat(t, u)) /\ Cat(s, t) \in Seq(F)
BY ConcatAssociative, ConcatProperties DEF Cat

\* Three ways to bracket four runs.
LEMMA Rebracket ==
  ASSUME NEW F, NEW s \in Seq(F), NEW t \in Seq(F), NEW u \in Seq(F), NEW v \in Seq(F)
  PROVE  /\ Cat(Cat(s, t), Cat(u, v)) = Cat(Cat(s, Cat(t, u)), v)
         /\ Cat(Cat(s, Cat(t, u)), v) = Cat(s, Cat(t, Cat(u, v)))
<1>1. Cat(Cat(s, t), Cat(u, v)) = Cat(Cat(s, Cat(t, u)), v)
  BY Associative
<1>2. Cat(Cat(s, Cat(t, u)), v) = Cat(s, Cat(t, Cat(u, v)))
  BY Associative
<1> QED BY <1>1, <1>2

-----------------------------------------------------------------------------
(***************************************************************************)
(* What a step does to the frames that are to come                         *)
(***************************************************************************)

\* x falls out of the frames to come.
Falls(x, t) ==
  /\ x \in Frames /\ t \in Seq(Frames) /\ t # <<>>
  /\ Coming = writing \o (<<x>> \o t)
  /\ Coming' = writing \o t

\* A push puts one frame in the ring: nothing is lost, or one frame is and is
\* counted, and there is still a frame to come.
LEMMA PushKeepsOrCounts ==
  ASSUME TypeInv, source = "open", EndInv, Pushes
  PROVE  /\ queue' \in Seq(Frames) /\ Len(queue') <= Capacity /\ outbox' \in Seq(Frames)
         /\ \/ dropped' = dropped /\ Coming' = Coming
            \/ dropped' = dropped + 1 /\ \E x, t : Falls(x, t)
         /\ Coming' # <<>>
<1>1. PICK f, o, a : f = Head(outbox) /\ o = Tail(outbox) /\ a = Append(queue, f)
  OBVIOUS
<1>2. /\ queue \in Seq(Frames) /\ writing \in Seq(Frames) /\ Len(queue) <= Capacity
      /\ dropped \in Nat
  BY DEF TypeInv
<1>3. outbox \in Seq(Frames) /\ outbox # <<>>
  BY DEF TypeInv, Pushes
<1>4. f \in Frames /\ o \in Seq(Frames) /\ outbox = <<f>> \o o /\ <<f>> \in Seq(Frames) /\ <<f>> # <<>>
  BY <1>1, <1>3, HeadThenTail
<1>5. queue' = Newest(a) /\ dropped' = dropped + Excess(a) /\ outbox' = o /\ writing' = writing
  BY <1>1 DEF Pushes, Send, writerVars, EndInv
<1>6. /\ a = queue \o <<f>> /\ a \in Seq(Frames) /\ a # <<>>
      /\ \/ Excess(a) = 0 /\ Newest(a) = a /\ Len(a) <= Capacity
         \/ Excess(a) = 1 /\ Newest(a) = Tail(a) /\ Tail(a) # <<>> /\ Len(Tail(a)) = Capacity
  BY <1>1, <1>2, <1>4, NewestOne
<1>7. Coming = (writing \o queue) \o (<<f>> \o o)
  BY <1>4 DEF Coming
<1>8. Coming = (writing \o a) \o o
  <2>1. PICK e : e = <<f>>
    OBVIOUS
  <2>2. e \in Seq(Frames)
    BY <1>4, <2>1
  <2>3. Cat(Cat(writing, queue), Cat(e, o)) = Cat(Cat(writing, Cat(queue, e)), o)
    BY <1>2, <1>4, <2>2, Rebracket
  <2>4. a = Cat(queue, e)
    BY <1>6, <2>1 DEF Cat
  <2>5. Coming = Cat(Cat(writing, queue), Cat(e, o))
    BY <1>7, <2>1 DEF Cat
  <2>6. Coming = Cat(Cat(writing, a), o)
    BY <2>3, <2>4, <2>5
  <2> QED BY <2>6 DEF Cat
<1>9. Coming' = (writing \o queue') \o o
  BY <1>5 DEF Coming
<1>10. CASE Excess(a) = 0 /\ Newest(a) = a /\ Len(a) <= Capacity
  <2>1. queue' = a /\ dropped' = dropped
    BY <1>2, <1>5, <1>10
  <2>2. Coming' = Coming
    BY <1>8, <1>9, <2>1
  <2>3. Coming # <<>>
    <3>1. writing \o a \in Seq(Frames) /\ writing \o a # <<>>
      BY <1>2, <1>6, ConcatProperties, ConcatEqualIffEmpty
    <3> QED BY <1>4, <1>8, <3>1, ConcatEqualIffEmpty
  <2>4. queue' \in Seq(Frames) /\ Len(queue') <= Capacity
    BY <1>6, <1>10, <2>1
  <2>5. outbox' \in Seq(Frames)
    BY <1>4, <1>5
  <2> QED BY <2>1, <2>2, <2>3, <2>4, <2>5
<1>11. CASE Excess(a) = 1 /\ Newest(a) = Tail(a) /\ Tail(a) # <<>> /\ Len(Tail(a)) = Capacity
  <2>1. PICK x, b : x = Head(a) /\ b = Tail(a)
    OBVIOUS
  <2>2. /\ x \in Frames /\ b \in Seq(Frames) /\ a = <<x>> \o b /\ b # <<>> /\ Len(b) = Capacity
        /\ queue' = b /\ dropped' = dropped + 1 /\ <<x>> \in Seq(Frames)
    <3>1. x \in Frames /\ b \in Seq(Frames) /\ a = <<x>> \o b
      BY <1>6, <2>1, HeadThenTail
    <3> QED BY <1>5, <1>11, <2>1, <3>1
  <2>3. Coming = writing \o (<<x>> \o (b \o o)) /\ Coming' = writing \o (b \o o) /\ b \o o \in Seq(Frames)
    <3>1. PICK e : e = <<x>>
      OBVIOUS
    <3>2. e \in Seq(Frames) /\ b \in Seq(Frames) /\ o \in Seq(Frames) /\ writing \in Seq(Frames)
      BY <1>2, <1>4, <2>2, <3>1
    <3>3. Cat(Cat(writing, Cat(e, b)), o) = Cat(writing, Cat(e, Cat(b, o)))
      BY <3>2, Rebracket
    <3>4. Cat(Cat(writing, b), o) = Cat(writing, Cat(b, o)) /\ Cat(b, o) \in Seq(Frames)
      BY <3>2, Associative
    <3>5. Coming = Cat(Cat(writing, Cat(e, b)), o)
      BY <1>8, <2>2, <3>1 DEF Cat
    <3>6. Coming' = Cat(Cat(writing, b), o)
      BY <1>9, <2>2 DEF Cat
    <3>7. Coming = Cat(writing, Cat(e, Cat(b, o))) /\ Coming' = Cat(writing, Cat(b, o))
      BY <3>3, <3>4, <3>5, <3>6
    <3> QED BY <3>1, <3>4, <3>7 DEF Cat
  <2>4. b \o o # <<>>
    BY <1>4, <2>2, ConcatEqualIffEmpty
  <2>5. Falls(x, b \o o)
    BY <2>2, <2>3, <2>4 DEF Falls
  <2>6. Coming' # <<>>
    BY <1>2, <2>3, <2>4, ConcatEqualIffEmpty
  <2>7. Capacity \in Nat
    BY CapacityAssumption
  <2> QED BY <1>4, <1>5, <2>2, <2>5, <2>6, <2>7
<1> QED BY <1>6, <1>10, <1>11

\* What the pump says comes after what is there.
LEMMA SaysAfter ==
  ASSUME TypeInv, outbox = <<>>, NEW fs \in Seq(Frames), outbox' = fs, UNCHANGED <<queue, writing>>
  PROVE  Coming \in Seq(Frames) /\ Coming' = Coming \o fs
<1>1. writing \in Seq(Frames) /\ queue \in Seq(Frames) /\ writing \o queue \in Seq(Frames)
  BY ConcatProperties DEF TypeInv
<1>2. Coming = writing \o queue
  BY <1>1, ConcatEmptySeq DEF Coming
<1> QED BY <1>1, <1>2 DEF Coming

\* The writer takes a frame, and it is still to come.
LEMMA TakeKeeps ==
  ASSUME TypeInv, TakeFrame
  PROVE  /\ Coming' = Coming
         /\ writing' \in Seq(Frames) /\ Len(writing') = 1
         /\ queue' \in Seq(Frames) /\ Len(queue') <= Capacity
<1>1. queue \in Seq(Frames) /\ outbox \in Seq(Frames) /\ queue # <<>> /\ Len(queue) <= Capacity
  BY DEF TypeInv, TakeFrame, Take
<1>2. writing = <<>> /\ writing' = <<Head(queue)>> /\ queue' = Tail(queue) /\ outbox' = outbox
  BY DEF TakeFrame, Take, pumpVars
<1>3. /\ Head(queue) \in Frames /\ Tail(queue) \in Seq(Frames)
      /\ queue = <<Head(queue)>> \o Tail(queue)
      /\ <<Head(queue)>> \in Seq(Frames) /\ Len(<<Head(queue)>>) = 1
  BY <1>1, HeadThenTail
<1>4. Coming = queue \o outbox
  BY <1>1, <1>2, ConcatEmptySeq DEF Coming
<1>5. Coming' = queue \o outbox
  BY <1>2, <1>3 DEF Coming
<1>6. Len(Tail(queue)) <= Capacity
  <2>1. Len(queue) \in Nat /\ Capacity \in Nat /\ Len(Tail(queue)) = Len(queue) - 1
    BY <1>1, HeadTailProperties, LenProperties, CapacityAssumption
  <2> QED BY <1>1, <2>1
<1> QED BY <1>2, <1>3, <1>4, <1>5, <1>6

\* The writer writes the first frame to come.
LEMMA WriteFirst ==
  ASSUME TypeInv, WireInv, WriteFrame
  PROVE  \E f \in Frames, rest \in Seq(Frames) :
           /\ writing = <<f>> /\ wire = <<>> /\ wire' = DropsSaid \o <<f>>
           /\ Coming = <<f>> \o rest /\ Coming' = rest
<1>1. writing \in Seq(Frames) /\ queue \in Seq(Frames) /\ outbox \in Seq(Frames) /\ writing # <<>> /\ Len(writing) <= 1
  BY DEF TypeInv, WriteFrame
<1>2. wire = <<>> /\ wire' = DropsSaid \o writing /\ writing' = <<>> /\ queue' = queue /\ outbox' = outbox
  BY <1>1 DEF WireInv, WriteFrame, slots, pumpVars
<1>3. PICK f \in Frames : writing = <<f>>
  <2>1. Len(writing) = 1
    <3>1. Len(writing) \in Nat \ {0}
      BY <1>1, EmptySeq
    <3> QED BY <1>1, <3>1
  <2>2. PICK f : f = writing[1]
    OBVIOUS
  <2>3. f \in Frames
    BY <1>1, <2>1, <2>2, ElementOfSeq
  <2>4. <<f>> \in Seq(Frames) /\ Len(<<f>>) = 1 /\ <<f>>[1] = f
    BY <2>3
  <2>5. \A i \in 1 .. Len(writing) : writing[i] = <<f>>[i]
    BY <2>1, <2>2, <2>4
  <2>6. writing = <<f>>
    BY <1>1, <2>1, <2>4, <2>5, SeqEqual
  <2> QED BY <2>3, <2>6
<1>4. Coming = <<f>> \o (queue \o outbox) /\ queue \o outbox \in Seq(Frames)
  <2>1. <<f>> \in Seq(Frames)
    BY <1>3
  <2> QED BY <1>1, <1>3, <2>1, ConcatAssociative, ConcatProperties DEF Coming
<1>5. Coming' = queue \o outbox
  BY <1>1, <1>2, ConcatEmptySeq DEF Coming
<1> QED BY <1>2, <1>3, <1>4, <1>5

-----------------------------------------------------------------------------
(***************************************************************************)
(* What a frame says                                                       *)
(***************************************************************************)

\* What a frame of each kind carries.
LEMMA FrameSays ==
  ASSUME NEW f \in Frames
  PROVE  /\ RowsOf(f) \subseteq RowId
         /\ Forward => RowsOf(f) \subseteq Due
         /\ f.kind = "messages" => f.body \in Batches \ {<<>>} /\ RowsOf(f) = Range(f.body)
         /\ f.kind # "messages" => RowsOf(f) = {}
         /\ f.kind = "dropped" => f.body \in Nat \ {0}
         /\ f.kind = "phase" => f.body \in {"seeking", "streaming", "done"}
         /\ f.kind = "phase" /\ f.body = "done" <=> f = Done
<1>1. f.kind = "messages" => f.body \in Batches \ {<<>>} /\ RowsOf(f) = Range(f.body)
  BY DEF Frames, RowsOf
<1>2. f.kind # "messages" => RowsOf(f) = {}
  BY DEF RowsOf
<1>3. f.kind = "dropped" => f.body \in Nat \ {0}
  BY DEF Frames
<1>4. f.kind = "phase" => f.body \in {"seeking", "streaming", "done"}
  BY DEF Frames
<1>5. f.kind = "phase" /\ f.body = "done" <=> f = Done
  BY DEF Frames, Done, Phase, Frame
<1>6. \A b \in Batches : Range(b) \subseteq RowId /\ (Forward => Range(b) \subseteq Due)
  BY RangeOfSeq DEF Batches
<1> QED BY <1>1, <1>2, <1>3, <1>4, <1>5, <1>6

\* The frames without rows, and the frame of a batch.
LEMMA PlainFrames ==
  /\ \A p \in {"seeking", "streaming", "done"} : Phase(p) \in Frames /\ RowsOf(Phase(p)) = {}
  /\ \A f \in {Failed, Progress, Resolved} : f \in Frames /\ RowsOf(f) = {} /\ f # Done
  /\ Done \in Frames /\ RowsOf(Done) = {}
  /\ Phase("seeking") # Done /\ Phase("streaming") # Done
  /\ \A n \in Nat \ {0} : LET f == Frame("dropped", n) IN f \in Frames /\ RowsOf(f) = {} /\ f # Done
  /\ \A r \in RowId : LET f == Frame("resumed", r) IN f \in Frames /\ RowsOf(f) = {} /\ f # Done
BY DEF Frames, RowsOf, Phase, Failed, Progress, Resolved, Done, Frame

\* A batch that is not empty makes a frame of its rows.
LEMMA RowFrames ==
  ASSUME NEW b \in Batches, b # <<>>
  PROVE  Rows(b) \in Frames /\ RowsOf(Rows(b)) = Range(b) /\ Rows(b) # Done
BY DEF Frames, RowsOf, Rows, Done, Phase, Frame

\* Frames without rows, and without `done`.
Plain(fs) == fs \in Seq(Frames) /\ AllRows(fs) = {}

\* One frame without rows is plain.
LEMMA PlainOne ==
  ASSUME NEW f \in Frames, RowsOf(f) = {}
  PROVE  Plain(<<f>>)
BY FewRows DEF Plain

\* No frame at all is plain.
LEMMA PlainNone == Plain(<<>>)
BY FewRows, EmptySeq DEF Plain

\* Plain frames after plain ones are plain.
LEMMA PlainConcat ==
  ASSUME NEW s, NEW t, Plain(s), Plain(t)
  PROVE  Plain(s \o t)
<1>1. s \in Seq(Frames) /\ t \in Seq(Frames) /\ AllRows(s) = {} /\ AllRows(t) = {}
  BY DEF Plain
<1>2. s \o t \in Seq(Frames) /\ AllRows(s \o t) = AllRows(s) \cup AllRows(t)
  BY <1>1, ConcatProperties, RowsConcat
<1> QED BY <1>1, <1>2 DEF Plain

\* Plain frames need nothing before them.
LEMMA PlainSays ==
  ASSUME NEW base, NEW fs, Plain(fs)
  PROVE  Covers(base, fs) /\ Ascends(base, fs)
<1>1. \A i \in 1 .. Len(fs) : RowsOf(fs[i]) = {}
  BY DEF Plain, AllRows
<1> QED BY <1>1 DEF Covers, Ascends

\* What flushing a batch says.
LEMMA FlushSays ==
  ASSUME NEW b \in Batches, NEW rest, Plain(rest)
  PROVE  LET fs == Flushed(b) \o rest
         IN  /\ fs \in Seq(Frames) /\ AllRows(fs) = Range(b)
             /\ NoDone(rest) => NoDone(fs)
             /\ Ends(rest) => Ends(fs)
             /\ \A base : (\A r \in Range(b) : Earlier(r) \subseteq base \cup Range(b)) => Covers(base, fs)
             /\ \A base : (\A s \in Range(b), r \in base : r[1] = s[1] => r[2] < s[2]) => Ascends(base, fs)
<1>1. PICK h, fs : h = Flushed(b) /\ fs = h \o rest
  OBVIOUS
<1>2. rest \in Seq(Frames) /\ AllRows(rest) = {}
  BY DEF Plain
<1>3. /\ h \in Seq(Frames) /\ AllRows(h) = Range(b) /\ NoDone(h)
      /\ \A base : (\A r \in Range(b) : Earlier(r) \subseteq base \cup Range(b)) => Covers(base, h)
      /\ \A base : (\A s \in Range(b), r \in base : r[1] = s[1] => r[2] < s[2]) => Ascends(base, h)
  <2>1. CASE b = <<>>
    <3>1. h = <<>>
      BY <1>1, <2>1 DEF Flushed
    <3>2. Range(b) = {}
      BY <2>1 DEF Range
    <3>3. h \in Seq(Frames)
      BY <3>1
    <3> QED BY <3>1, <3>2, <3>3, FewRows, DoneFew, CoversFew, AscendsFew
  <2>2. CASE b # <<>>
    <3>1. PICK f : f = Rows(b)
      OBVIOUS
    <3>2. h = <<f>> /\ f \in Frames /\ RowsOf(f) = Range(b) /\ f # Done
      BY <1>1, <2>2, <3>1, RowFrames DEF Flushed
    <3>3. h \in Seq(Frames)
      BY <3>2
    <3> QED BY <3>2, <3>3, FewRows, DoneFew, CoversFew, AscendsFew
  <2> QED BY <2>1, <2>2
<1>4. /\ fs \in Seq(Frames) /\ AllRows(fs) = AllRows(h) \cup AllRows(rest)
      /\ NoDone(fs) <=> NoDone(h) /\ NoDone(rest)
      /\ rest # <<>> => (Ends(fs) <=> NoDone(h) /\ Ends(rest))
  <2>1. h \in Seq(Frames) /\ rest \in Seq(Frames)
    BY <1>2, <1>3
  <2>2. h \o rest \in Seq(Frames)
    BY <2>1, ConcatProperties
  <2>3. AllRows(h \o rest) = AllRows(h) \cup AllRows(rest)
    BY <2>1, RowsConcat
  <2>4. /\ NoDone(h \o rest) <=> NoDone(h) /\ NoDone(rest)
        /\ rest # <<>> => (Ends(h \o rest) <=> NoDone(h) /\ Ends(rest))
    BY <2>1, DoneConcat
  <2> QED BY <1>1, <2>2, <2>3, <2>4
<1>5. Ends(rest) => rest # <<>>
  BY DEF Ends
<1>6. \A base : (Covers(base, fs) <=> Covers(base, h) /\ Covers(base \cup AllRows(h), rest))
  BY <1>1, <1>2, <1>3, CoversConcat
<1>7. \A base : (Ascends(base, fs) <=> Ascends(base, h) /\ Ascends(base \cup AllRows(h), rest))
  BY <1>1, <1>2, <1>3, AscendsConcat
<1>8. \A base : Covers(base, rest) /\ Ascends(base, rest)
  BY PlainSays
<1>9. fs \in Seq(Frames) /\ AllRows(fs) = Range(b) /\ (NoDone(rest) => NoDone(fs)) /\ (Ends(rest) => Ends(fs))
  BY <1>2, <1>3, <1>4, <1>5
<1>10. \A base : (\A r \in Range(b) : Earlier(r) \subseteq base \cup Range(b)) => Covers(base, fs)
  BY <1>3, <1>6, <1>8
<1>11. \A base : (\A s \in Range(b), r \in base : r[1] = s[1] => r[2] < s[2]) => Ascends(base, fs)
  BY <1>3, <1>7, <1>8
<1> QED BY <1>1, <1>9, <1>10, <1>11

\* The reader's window does not change under it.
LEMMA QueryStays ==
  ASSUME query' = query
  PROVE  /\ Due' = Due /\ Batches' = Batches /\ Frames' = Frames
         /\ (Forward' <=> Forward) /\ (Live' <=> Live) /\ (Backward' <=> Backward) /\ (Bounded' <=> Bounded)
         /\ \A p : Begin(p)' = Begin(p)
         /\ \A r : Earlier(r)' = Earlier(r)
<1>1. (Forward' <=> Forward) /\ (Live' <=> Live) /\ (Backward' <=> Backward) /\ (Bounded' <=> Bounded)
  BY DEF Forward, Live, Backward, Bounded
<1>2. \A p : Begin(p)' = Begin(p)
  BY DEF Begin
<1>3. Due' = Due
  BY <1>2 DEF Due
<1>4. \A r : Earlier(r)' = Earlier(r)
  BY <1>3 DEF Earlier
<1>5. Batches' = Batches
  BY <1>1, <1>3 DEF Batches
<1>6. Frames' = Frames
  BY <1>5 DEF Frames
<1> QED BY <1>1, <1>2, <1>3, <1>4, <1>5, <1>6

\* Covering is about the window, so it reads the same after the step.
LEMMA CoversStays ==
  ASSUME query' = query
  PROVE  Covers(Written, Coming)' <=> Covers(Written', Coming')
<1>1. \A r : Earlier(r)' = Earlier(r)
  BY QueryStays
<1> QED BY <1>1 DEF Covers, UpTo

\* The rows a state speaks of.
LEMMA RowsTyped ==
  ASSUME TypeInv
  PROVE  /\ \A fs \in Seq(Frames) : AllRows(fs) \subseteq RowId /\ (Forward => AllRows(fs) \subseteq Due)
         /\ Coming \in Seq(Frames) /\ Pending \in Seq(Frames)
         /\ OnScreen \subseteq RowId /\ Written \subseteq RowId /\ Sent \subseteq RowId
         /\ Range(batch) \subseteq RowId /\ (Forward => Range(batch) \subseteq Due)
         /\ Due \subseteq RowId
<1>1. \A fs \in Seq(Frames) : AllRows(fs) \subseteq RowId /\ (Forward => AllRows(fs) \subseteq Due)
  <2> SUFFICES ASSUME NEW fs \in Seq(Frames)
               PROVE  AllRows(fs) \subseteq RowId /\ (Forward => AllRows(fs) \subseteq Due)
    OBVIOUS
  <2>1. \A i \in 1 .. Len(fs) : fs[i] \in Frames
    BY ElementOfSeq
  <2>2. \A i \in 1 .. Len(fs) : RowsOf(fs[i]) \subseteq RowId /\ (Forward => RowsOf(fs[i]) \subseteq Due)
    BY <2>1, FrameSays
  <2> QED BY <2>2 DEF AllRows
<1>2. writing \in Seq(Frames) /\ queue \in Seq(Frames) /\ outbox \in Seq(Frames) /\ wire \in Seq(Frames)
  BY DEF TypeInv
<1>3. Coming \in Seq(Frames)
  <2>1. writing \o queue \in Seq(Frames)
    BY <1>2, ConcatProperties
  <2> QED BY <1>2, <2>1, ConcatProperties DEF Coming
<1>4. Pending \in Seq(Frames)
  BY <1>2, <1>3, ConcatProperties DEF Pending
<1>5. OnScreen \subseteq RowId
  BY RangeOfSeq DEF TypeInv, OnScreen
<1>6. Range(batch) \subseteq RowId /\ (Forward => Range(batch) \subseteq Due)
  BY RangeOfSeq DEF TypeInv, Batches
<1>7. Due \subseteq RowId
  <2>1. query.partitions \subseteq Partitions
    BY StreamAssumption DEF TypeInv
  <2>2. Offsets \subseteq Nat
    BY DEF Offsets
  <2> QED BY <2>1, <2>2 DEF Due, RowId
<1>8. Written \subseteq RowId /\ Sent \subseteq RowId
  BY <1>1, <1>2, <1>3, <1>5 DEF Written, Sent
<1> QED BY <1>1, <1>3, <1>4, <1>5, <1>6, <1>7, <1>8

-----------------------------------------------------------------------------
(***************************************************************************)
(* The pump speaks: a step that puts fs in the outbox                      *)
(***************************************************************************)

\* Before it has said `done`.
Waiting == {"starting", "resolving", "opening", "scanning"}

\* The pump, between two awaits, says fs.
Speaks(fs) ==
  /\ pump \in Waiting
  /\ fs \in Seq(Frames) /\ outbox = <<>> /\ outbox' = fs
  /\ UNCHANGED <<slots, fixed, writerVars, readerVars>>

\* It goes on, or it ends with `done`.
Goes(fs) ==
  \/ pump' \in Waiting /\ NoDone(fs)
  \/ pump' = "closing" /\ Ends(fs)

\* What such a step does to the frames and rows a state speaks of.
LEMMA SpeaksFacts ==
  ASSUME TypeInv, EndInv, NEW fs, Speaks(fs)
  PROVE  /\ query' = query /\ resume' = resume
         /\ queue' = queue /\ dropped' = dropped /\ senderGone' = senderGone /\ receiverGone' = receiverGone
         /\ writing' = writing /\ told' = told /\ wire' = wire
         /\ source' = source /\ lastId' = lastId /\ rows' = rows /\ shown' = shown /\ phase' = phase
         /\ ~Closing /\ source = "open" /\ ~senderGone /\ NoDone(Pending)
         /\ Coming \in Seq(Frames) /\ Coming' = Coming \o fs
         /\ Pending' = Pending \o fs /\ Pending \in Seq(Frames)
         /\ OnScreen' = OnScreen /\ Written' = Written /\ Sent' = Sent \cup AllRows(fs)
         /\ (Noticed' <=> Noticed)
<1>1. /\ query' = query /\ resume' = resume
      /\ queue' = queue /\ dropped' = dropped /\ senderGone' = senderGone /\ receiverGone' = receiverGone
      /\ writing' = writing /\ told' = told /\ wire' = wire
      /\ source' = source /\ lastId' = lastId /\ rows' = rows /\ shown' = shown /\ phase' = phase
      /\ fs \in Seq(Frames) /\ outbox = <<>> /\ outbox' = fs
  BY DEF Speaks, slots, fixed, writerVars, readerVars
<1>2. ~Closing /\ pump # "ended"
  BY DEF Speaks, Waiting, Closing
<1>3. source = "open" /\ NoDone(Pending) /\ ~senderGone
  <2>1. source = "open" /\ NoDone(Pending)
    BY <1>2 DEF EndInv
  <2>2. ~senderGone
    BY <1>2 DEF EndInv
  <2> QED BY <2>1, <2>2
<1>4. Coming \in Seq(Frames) /\ Coming' = Coming \o fs
  BY <1>1, SaysAfter
<1>5. Pending \in Seq(Frames) /\ Pending' = Pending \o fs
  <2>1. wire \in Seq(Frames) /\ Pending \in Seq(Frames)
    BY RowsTyped DEF TypeInv
  <2>2. Cat(Cat(wire, Coming), fs) = Cat(wire, Cat(Coming, fs))
    BY <1>1, <1>4, <2>1, Associative
  <2>3. Pending \o fs = Cat(Cat(wire, Coming), fs) /\ Pending' = Cat(wire, Cat(Coming, fs))
    BY <1>1, <1>4 DEF Pending, Cat
  <2> QED BY <2>1, <2>2, <2>3
<1>6. OnScreen' = OnScreen /\ Written' = Written
  BY <1>1 DEF OnScreen, Written, AllRows
<1>7. Sent' = Sent \cup AllRows(fs)
  <2>1. AllRows(Coming \o fs) = AllRows(Coming) \cup AllRows(fs)
    BY <1>1, <1>4, RowsConcat
  <2>2. AllRows(Coming)' = AllRows(Coming \o fs)
    BY <1>4 DEF AllRows
  <2> QED BY <1>6, <2>1, <2>2 DEF Sent
<1>8. Noticed' <=> Noticed
  BY <1>1 DEF Noticed
<1> QED BY <1>1, <1>2, <1>3, <1>4, <1>5, <1>6, <1>7, <1>8

\* It keeps the promises about `done`.
LEMMA SpeaksEnd ==
  ASSUME TypeInv, EndInv, NEW fs, Speaks(fs), Goes(fs)
  PROVE  EndInv'
<1>1. /\ senderGone' = senderGone /\ receiverGone' = receiverGone /\ dropped' = dropped /\ told' = told
      /\ source' = source /\ phase' = phase
      /\ ~Closing /\ source = "open" /\ ~senderGone /\ NoDone(Pending)
      /\ Coming \in Seq(Frames) /\ Coming' = Coming \o fs
      /\ Pending' = Pending \o fs /\ Pending \in Seq(Frames)
  BY SpeaksFacts
<1>2. fs \in Seq(Frames)
  BY DEF Speaks
<1>3. pump' \in Waiting \cup {"closing"}
  BY DEF Goes
<1>4. ~Closing' => NoDone(Pending)'
  <2> SUFFICES ASSUME ~Closing' PROVE NoDone(Pending')
    BY DEF NoDone
  <2>1. NoDone(fs)
    BY DEF Goes, Closing
  <2> QED BY <1>1, <1>2, <2>1, DoneConcat
<1>5. Closing' => Ends(fs) /\ fs # <<>>
  BY DEF Goes, Closing, Waiting, Ends
<1>6. Closing' => Ends(Pending)'
  <2> SUFFICES ASSUME Closing' PROVE Ends(Pending')
    BY DEF Ends
  <2> QED BY <1>1, <1>2, <1>5, DoneConcat
<1>7. Closing' => Coming' # <<>>
  BY <1>1, <1>2, <1>5, ConcatEqualIffEmpty
<1>8. /\ phase' # "done"
      /\ receiverGone' <=> source' = "closed"
      /\ source' = "open"
      /\ ~senderGone'
  BY <1>1 DEF EndInv
<1>9. /\ pump' \in {"starting", "resolving", "opening", "scanning", "closing", "ended"}
      /\ pump' # "ended"
  BY <1>3 DEF Waiting
<1> QED BY <1>4, <1>6, <1>7, <1>8, <1>9 DEF EndInv

\* It keeps the types, when what it sets is typed.
LEMMA SpeaksType ==
  ASSUME TypeInv, EndInv, NEW fs, Speaks(fs),
         cursor' \in [Partitions -> Nat], batch' \in Batches, owed' \subseteq RowId
  PROVE  TypeInv'
<1>1. /\ query' = query /\ resume' = resume
      /\ queue' = queue /\ dropped' = dropped
      /\ writing' = writing /\ told' = told /\ wire' = wire
      /\ lastId' = lastId /\ rows' = rows /\ shown' = shown
      /\ OnScreen' = OnScreen
  BY SpeaksFacts
<1>2. Batches' = Batches /\ Frames' = Frames
  BY <1>1, QueryStays
<1>3. outbox' \in Seq(Frames)
  BY DEF Speaks
<1> QED BY <1>1, <1>2, <1>3 DEF TypeInv

\* It leaves the wire and the store alone.
LEMMA SpeaksWire ==
  ASSUME TypeInv, EndInv, WireInv, StoreInv, NEW fs, Speaks(fs)
  PROVE  WireInv' /\ StoreInv'
<1>1. /\ query' = query /\ writing' = writing /\ told' = told /\ wire' = wire
      /\ rows' = rows /\ shown' = shown /\ (Noticed' <=> Noticed)
  BY SpeaksFacts
<1>2. Backward' <=> Backward
  BY <1>1, QueryStays
<1>3. WireInv'
  BY <1>1 DEF WireInv
<1>4. StoreInv'
  BY <1>1, <1>2 DEF StoreInv, IsInjective, Ascending
<1> QED BY <1>3, <1>4

\* It loses nothing, when what it says covers what was sent.
LEMMA SpeaksCover ==
  ASSUME TypeInv, EndInv, CoverInv, NEW fs, Speaks(fs),
         Bounded /\ shown = 0 /\ dropped = 0 => owed' \subseteq Sent \cup AllRows(fs) \cup Range(batch'),
         Forward /\ shown = 0 /\ dropped = 0 => Covers(Sent, fs)
  PROVE  CoverInv'
<1>1. /\ query' = query /\ dropped' = dropped /\ wire' = wire /\ shown' = shown
      /\ Coming \in Seq(Frames) /\ Coming' = Coming \o fs
      /\ OnScreen' = OnScreen /\ Written' = Written /\ Sent' = Sent \cup AllRows(fs)
      /\ (Noticed' <=> Noticed)
  BY SpeaksFacts
<1>2. /\ Due' = Due /\ (Forward' <=> Forward) /\ (Bounded' <=> Bounded)
      /\ \A r : Earlier(r)' = Earlier(r)
  BY <1>1, QueryStays
<1>3. (Bounded /\ shown = 0 /\ dropped = 0 => owed \subseteq Sent \cup Range(batch))'
  BY <1>1, <1>2 DEF Range
<1>4. ASSUME Forward, shown = 0, dropped = 0 PROVE Covers(Written, Coming)'
  <2>1. Covers(Written, Coming)
    BY <1>4 DEF CoverInv
  <2>2. Covers(Written \cup AllRows(Coming), fs)
    BY <1>4 DEF Sent
  <2>3. Covers(Written, Coming \o fs)
    <3>1. fs \in Seq(Frames)
      BY DEF Speaks
    <3> QED BY <1>1, <2>1, <2>2, <3>1, CoversConcat
  <2> QED BY <1>1, <2>3, CoversStays
<1>5. AllRows(wire)' = AllRows(wire)
  BY <1>1 DEF AllRows
<1>6. ASSUME Forward', shown' = 0
      PROVE  /\ (OnScreen \subseteq Due)'
             /\ (\A r \in OnScreen : Earlier(r) \subseteq OnScreen)'
             /\ (~Noticed => \A r \in AllRows(wire) : Earlier(r) \subseteq Written)'
             /\ (dropped = 0 => Covers(Written, Coming))'
  <2>1. Forward /\ shown = 0
    BY <1>1, <1>2, <1>6
  <2> QED BY <1>1, <1>2, <1>4, <1>5, <2>1 DEF CoverInv
<1> QED BY <1>3, <1>6 DEF CoverInv

\* It keeps a live stream ascending, when what it says ascends.
LEMMA SpeaksLive ==
  ASSUME TypeInv, EndInv, LiveInv, NEW fs, Speaks(fs),
         Live => /\ Ascends(Sent, fs)
                 /\ \A r \in Sent \cup AllRows(fs) : r[2] < cursor'[r[1]]
                 /\ \A s \in Range(batch'), r \in Sent \cup AllRows(fs) : r[1] = s[1] => r[2] < s[2]
  PROVE  LiveInv'
<1>1. /\ query' = query /\ wire' = wire
      /\ Coming \in Seq(Frames) /\ Coming' = Coming \o fs
      /\ OnScreen' = OnScreen /\ Written' = Written /\ Sent' = Sent \cup AllRows(fs)
  BY SpeaksFacts
<1> SUFFICES ASSUME Live'
             PROVE  /\ \A r \in Sent' : r[2] < cursor'[r[1]]
                    /\ \A s \in Range(batch'), r \in Sent' : r[1] = s[1] => r[2] < s[2]
                    /\ Ascends(OnScreen', wire') /\ Ascends(Written', Coming')
  BY DEF LiveInv, Ascends, UpTo, Range
<1>2. Live
  BY <1>1, QueryStays
<1>3. Ascends(OnScreen, wire) /\ Ascends(Written, Coming)
  BY <1>2 DEF LiveInv
<1>4. Ascends(Written, Coming \o fs)
  <2>1. fs \in Seq(Frames)
    BY DEF Speaks
  <2>2. Ascends(Written \cup AllRows(Coming), fs)
    BY <1>2 DEF Sent
  <2> QED BY <1>1, <1>3, <2>1, <2>2, AscendsConcat
<1> QED BY <1>1, <1>2, <1>3, <1>4

\* The pump says frames without rows, and holds on to its batch.
LEMMA PlainStep ==
  ASSUME TypeInv, EndInv, WireInv, ScanInv, CoverInv, LiveInv, StoreInv,
         NEW fs, Speaks(fs), Goes(fs), Plain(fs), UNCHANGED <<batch, owed>>,
         cursor' \in [Partitions -> Nat],
         Live => \A p \in Partitions : cursor[p] <= cursor'[p]
  PROVE  TypeInv' /\ EndInv' /\ WireInv' /\ CoverInv' /\ LiveInv' /\ StoreInv'
<1>1. batch \in Batches /\ owed \subseteq RowId /\ AllRows(fs) = {} /\ Covers(Sent, fs) /\ Ascends(Sent, fs)
  BY PlainSays DEF TypeInv, Plain
<1>2. TypeInv'
  BY <1>1, SpeaksType
<1>3. EndInv'
  BY SpeaksEnd
<1>4. WireInv' /\ StoreInv'
  BY SpeaksWire
<1>5. CoverInv'
  <2>1. Bounded /\ shown = 0 /\ dropped = 0 => owed' \subseteq Sent \cup AllRows(fs) \cup Range(batch')
    BY <1>1 DEF CoverInv
  <2> QED BY <1>1, <2>1, SpeaksCover
<1>6. LiveInv'
  <2>1. ASSUME Live PROVE \A r \in Sent \cup AllRows(fs) : r[2] < cursor'[r[1]]
    <3> SUFFICES ASSUME NEW r \in Sent PROVE r[2] < cursor'[r[1]]
      BY <1>1
    <3>1. r[1] \in Partitions /\ r[2] \in Nat
      BY RowsTyped DEF RowId
    <3>2. r[2] < cursor[r[1]] /\ cursor[r[1]] <= cursor'[r[1]]
      BY <2>1, <3>1 DEF LiveInv
    <3>3. cursor[r[1]] \in Nat /\ cursor'[r[1]] \in Nat
      BY <3>1 DEF TypeInv
    <3> QED BY <3>1, <3>2, <3>3
  <2>2. Live => \A s \in Range(batch'), r \in Sent \cup AllRows(fs) : r[1] = s[1] => r[2] < s[2]
    BY <1>1 DEF LiveInv
  <2> QED BY <1>1, <2>1, <2>2, SpeaksLive
<1> QED BY <1>2, <1>3, <1>4, <1>5, <1>6

\* The inductive invariant.
StreamInv == TypeInv /\ EndInv /\ WireInv /\ ScanInv /\ CoverInv /\ LiveInv /\ StoreInv

\* `seeking`, before anything else.
LEMMA SeekStep == ASSUME StreamInv, Seek PROVE StreamInv'
<1>1. TypeInv /\ EndInv /\ WireInv /\ ScanInv /\ CoverInv /\ LiveInv /\ StoreInv
  BY DEF StreamInv
<1>2. PICK f : f = Phase("seeking")
  OBVIOUS
<1>3. f \in Frames /\ RowsOf(f) = {} /\ f # Done
  BY <1>2, PlainFrames
<1>4. pump = "starting" /\ pump' \in {"resolving", "opening"} /\ outbox' = <<f>> /\ UNCHANGED <<cursor, batch, cut, owed, query>>
  BY <1>2 DEF Seek, At, Says, fixed
<1>5. Speaks(<<f>>)
  <2>1. <<f>> \in Seq(Frames)
    BY <1>3
  <2> QED BY <1>4, <2>1 DEF Speaks, Seek, At, Waiting
<1>6. Goes(<<f>>) /\ Plain(<<f>>)
  BY <1>3, <1>4, DoneFew, PlainOne DEF Goes, Waiting
<1>7. cursor' \in [Partitions -> Nat] /\ (Live => \A p \in Partitions : cursor[p] <= cursor'[p])
  BY <1>1, <1>4 DEF TypeInv
<1>8. TypeInv' /\ EndInv' /\ WireInv' /\ CoverInv' /\ LiveInv' /\ StoreInv'
  BY <1>1, <1>4, <1>5, <1>6, <1>7, PlainStep
<1>9. ScanInv'
  BY <1>1, <1>4 DEF ScanInv, Closing, Range
<1> QED BY <1>8, <1>9 DEF StreamInv

\* The offsets of a timed window, or nothing.
LEMMA ResolveStep == ASSUME StreamInv, Resolve PROVE StreamInv'
<1>1. TypeInv /\ EndInv /\ WireInv /\ ScanInv /\ CoverInv /\ LiveInv /\ StoreInv
  BY DEF StreamInv
<1>2. PICK fs : fs \in {<<>>, <<Resolved>>} /\ outbox' = fs
  BY DEF Resolve, Says
<1>3. Plain(fs) /\ NoDone(fs) /\ fs \in Seq(Frames)
  <2>1. Resolved \in Frames /\ RowsOf(Resolved) = {} /\ Resolved # Done
    BY PlainFrames
  <2>2. CASE fs = <<>>
    BY <2>2, PlainNone, DoneFew, EmptySeq
  <2>3. CASE fs = <<Resolved>>
    <3>1. Plain(<<Resolved>>) /\ NoDone(<<Resolved>>)
      BY <2>1, PlainOne, DoneFew
    <3> QED BY <2>3, <3>1 DEF Plain
  <2> QED BY <1>2, <2>2, <2>3
<1>4. pump = "resolving" /\ pump' = "opening" /\ UNCHANGED <<cursor, batch, cut, owed>>
  BY DEF Resolve, At
<1>5. Speaks(fs) /\ Goes(fs)
  BY <1>2, <1>3, <1>4 DEF Speaks, Goes, Resolve, At, Waiting
<1>6. cursor' \in [Partitions -> Nat] /\ (Live => \A p \in Partitions : cursor[p] <= cursor'[p])
  BY <1>1, <1>4 DEF TypeInv
<1>7. TypeInv' /\ EndInv' /\ WireInv' /\ CoverInv' /\ LiveInv' /\ StoreInv'
  BY <1>1, <1>3, <1>4, <1>5, <1>6, PlainStep
<1>8. ScanInv'
  BY <1>1, <1>4 DEF ScanInv, Closing, Range
<1> QED BY <1>7, <1>8 DEF StreamInv

\* Where a scan opens: a forward window where it begins, a live one no earlier
\* than before.
LEMMA OpensAt ==
  ASSUME TypeInv, OpenScan
  PROVE  /\ cursor' \in [Partitions -> Nat]
         /\ Forward => \A p \in Partitions : cursor'[p] = Begin(p)
         /\ Live => \A p \in Partitions : cursor[p] <= cursor'[p]
<1>1. cursor' \in [Partitions -> Offsets] /\ \A p \in Partitions : cursor'[p] \in Starts(p)
  BY DEF OpenScan
<1>2. Offsets \subseteq Nat
  BY DEF Offsets
<1>3. \A p \in Partitions : Len(Log[p]) \in Nat
  BY StreamAssumption
<1>4. cursor' \in [Partitions -> Nat]
  BY <1>1, <1>2
<1>5. ASSUME Forward, NEW p \in Partitions PROVE cursor'[p] = Begin(p)
  <2>1. CASE query.mode = "oldest"
    <3>1. Starts(p) = {0}
      BY <2>1 DEF Starts
    <3> QED BY <1>1, <2>1, <3>1 DEF Begin
  <2>2. CASE query.mode = "fromOffset"
    <3>1. Starts(p) = {IF query.from <= Len(Log[p]) THEN query.from ELSE Len(Log[p])}
      BY <2>2 DEF Starts
    <3> QED BY <1>1, <2>2, <3>1 DEF Begin
  <2> QED BY <1>5, <2>1, <2>2 DEF Forward
<1>6. ASSUME Live, NEW p \in Partitions PROVE cursor[p] <= cursor'[p]
  <2>1. Starts(p) = cursor[p] .. Len(Log[p])
    BY <1>6 DEF Starts, Live
  <2>2. cursor[p] \in Nat
    BY DEF TypeInv
  <2> QED BY <1>1, <1>3, <2>1, <2>2
<1> QED BY <1>4, <1>5, <1>6

\* A forward or live scan opens, and `streaming` is said.
LEMMA OpenScanStep == ASSUME StreamInv, OpenScan PROVE StreamInv'
<1>1. TypeInv /\ EndInv /\ WireInv /\ ScanInv /\ CoverInv /\ LiveInv /\ StoreInv
  BY DEF StreamInv
<1>2. PICK f : f = Phase("streaming")
  OBVIOUS
<1>3. f \in Frames /\ RowsOf(f) = {} /\ f # Done
  BY <1>2, PlainFrames
<1>4. /\ pump = "opening" /\ pump' = "scanning" /\ outbox' = <<f>> /\ ~Backward
      /\ UNCHANGED <<batch, cut, owed, query>>
  BY <1>2 DEF OpenScan, At, Says, fixed
<1>5. Speaks(<<f>>)
  <2>1. <<f>> \in Seq(Frames)
    BY <1>3
  <2> QED BY <1>4, <2>1 DEF Speaks, OpenScan, At, Waiting
<1>6. Goes(<<f>>) /\ Plain(<<f>>)
  BY <1>3, <1>4, DoneFew, PlainOne DEF Goes, Waiting
<1>7. /\ cursor' \in [Partitions -> Nat]
      /\ Forward => \A p \in Partitions : cursor'[p] = Begin(p)
      /\ Live => \A p \in Partitions : cursor[p] <= cursor'[p]
  BY <1>1, OpensAt
<1>8. TypeInv' /\ EndInv' /\ WireInv' /\ CoverInv' /\ LiveInv' /\ StoreInv'
  BY <1>1, <1>4, <1>5, <1>6, <1>7, PlainStep
<1>9. ScanInv'
  <2>1. batch' = <<>> /\ Range(batch') = {}
    BY <1>1, <1>4 DEF ScanInv, Range
  <2>2. /\ Due' = Due /\ (Forward' <=> Forward) /\ (Backward' <=> Backward)
        /\ \A p : Begin(p)' = Begin(p)
    BY <1>4, QueryStays
  <2>3. ASSUME Forward
        PROVE  /\ \A p \in query'.partitions : Begin(p) <= cursor'[p]
               /\ \A d \in Due : d[2] < cursor'[d[1]] => d \in owed'
    <3>1. query'.partitions \subseteq Partitions
      BY <1>1, <1>4, StreamAssumption DEF TypeInv
    <3>2. \A p \in Partitions : cursor'[p] = Begin(p) /\ Begin(p) \in Nat
      BY <1>7, <2>3
    <3>3. \A d \in Due : d[1] \in Partitions /\ d[2] \in Nat /\ Begin(d[1]) <= d[2]
      BY <1>1, RowsTyped DEF Due, RowId
    <3>4. \A d \in Due : ~(d[2] < cursor'[d[1]])
      BY <3>2, <3>3
    <3> QED BY <3>1, <3>2, <3>4
  <2> QED BY <1>4, <2>1, <2>2, <2>3 DEF ScanInv, Closing, Range
<1> QED BY <1>8, <1>9 DEF StreamInv

\* A frame and `done`, and `done` alone.
LEMMA TwoFrames ==
  ASSUME NEW f \in Frames, RowsOf(f) = {}, f # Done
  PROVE  /\ <<f, Done>> = <<f>> \o <<Done>>
         /\ Plain(<<f, Done>>) /\ Ends(<<f, Done>>)
         /\ Plain(<<Done>>) /\ Ends(<<Done>>)
<1>1. Done \in Frames /\ RowsOf(Done) = {}
  BY PlainFrames
<1>2. PICK s, t : s = <<f>> /\ t = <<Done>>
  OBVIOUS
<1>3. Plain(s) /\ Plain(t) /\ NoDone(s) /\ Ends(t) /\ t # <<>>
  BY <1>1, <1>2, PlainOne, DoneFew
<1>4. Plain(s \o t) /\ Ends(s \o t)
  <2>1. s \in Seq(Frames) /\ t \in Seq(Frames)
    BY <1>3 DEF Plain
  <2> QED BY <1>3, <2>1, PlainConcat, DoneConcat
<1>5. <<f, Done>> = s \o t
  BY <1>1, <1>2
<1> QED BY <1>2, <1>3, <1>4, <1>5

\* The broker refuses: an error, then `done`.
LEMMA ReadRefusedStep == ASSUME StreamInv, ReadRefused PROVE StreamInv'
<1>1. TypeInv /\ EndInv /\ WireInv /\ ScanInv /\ CoverInv /\ LiveInv /\ StoreInv
  BY DEF StreamInv
<1>2. PICK fs : fs = <<Failed, Done>>
  OBVIOUS
<1>3. Plain(fs) /\ Ends(fs) /\ fs \in Seq(Frames)
  <2>1. Failed \in Frames /\ RowsOf(Failed) = {} /\ Failed # Done
    BY PlainFrames
  <2> QED BY <1>2, <2>1, TwoFrames DEF Plain
<1>4. /\ pump = "opening" /\ pump' = "closing" /\ outbox' = fs /\ cut' = TRUE
      /\ UNCHANGED <<cursor, batch, owed>>
  BY <1>2 DEF ReadRefused, At, Says
<1>5. Speaks(fs) /\ Goes(fs)
  BY <1>3, <1>4 DEF Speaks, Goes, ReadRefused, At, Waiting
<1>6. cursor' \in [Partitions -> Nat] /\ (Live => \A p \in Partitions : cursor[p] <= cursor'[p])
  BY <1>1, <1>4 DEF TypeInv
<1>7. TypeInv' /\ EndInv' /\ WireInv' /\ CoverInv' /\ LiveInv' /\ StoreInv'
  BY <1>1, <1>3, <1>4, <1>5, <1>6, PlainStep
<1>8. ScanInv'
  BY <1>1, <1>4 DEF ScanInv, Closing, Range
<1> QED BY <1>7, <1>8 DEF StreamInv

\* The select takes another arm: `done`, and the batch is let go.
LEMMA InterruptedStep == ASSUME StreamInv, Interrupted PROVE StreamInv'
<1>1. TypeInv /\ EndInv /\ WireInv /\ ScanInv /\ CoverInv /\ LiveInv /\ StoreInv
  BY DEF StreamInv
<1>2. PICK fs : fs = <<Done>>
  OBVIOUS
<1>3. Plain(fs) /\ Ends(fs) /\ fs \in Seq(Frames)
  BY <1>2, PlainFrames, PlainOne, DoneFew DEF Plain
<1>4. /\ pump \in Waiting /\ pump' = "closing" /\ outbox' = fs /\ cut' = TRUE
      /\ UNCHANGED <<cursor, batch, owed>>
  BY <1>2 DEF Interrupted, Awaiting, Waiting, Says
<1>5. Speaks(fs) /\ Goes(fs)
  BY <1>3, <1>4 DEF Speaks, Goes, Interrupted, Awaiting, Waiting
<1>6. cursor' \in [Partitions -> Nat] /\ (Live => \A p \in Partitions : cursor[p] <= cursor'[p])
  BY <1>1, <1>4 DEF TypeInv
<1>7. TypeInv' /\ EndInv' /\ WireInv' /\ CoverInv' /\ LiveInv' /\ StoreInv'
  BY <1>1, <1>3, <1>4, <1>5, <1>6, PlainStep
<1>8. ScanInv'
  BY <1>1, <1>4 DEF ScanInv, Closing, Range
<1> QED BY <1>7, <1>8 DEF StreamInv

-----------------------------------------------------------------------------
(***************************************************************************)
(* The scan                                                                *)
(***************************************************************************)

\* A batch that may be flushed when the scan has come to cur: its rows are
\* read, a live one lies past what was sent, and nothing is missing before it.
Flushable(b, cur) ==
  /\ b \in Batches
  /\ \A r \in Range(b) : r[2] < cur[r[1]]
  /\ Live => \A s \in Range(b), r \in Sent : r[1] = s[1] => r[2] < s[2]
  /\ Forward /\ shown = 0 /\ dropped = 0 => \A r \in Range(b) : Earlier(r) \subseteq Sent \cup Range(b)

\* The scan never goes back.
Advances == cursor' \in [Partitions -> Nat] /\ \A p \in Partitions : cursor[p] <= cursor'[p]

\* What is owed is sent, or in b.
Accounted(b) == owed' \subseteq RowId /\ (Bounded /\ shown = 0 /\ dropped = 0 => owed' \subseteq Sent \cup Range(b))

\* A forward scan owes every row that is due and that it has come past.
ReadUp ==
  Forward => /\ \A p \in query.partitions : Begin(p) <= cursor'[p]
             /\ \A d \in Due : d[2] < cursor'[d[1]] => d \in owed'

\* What a live stream has sent stays behind the scan.
LEMMA SentBehind ==
  ASSUME TypeInv, LiveInv, Advances, Live
  PROVE  \A r \in Sent : r[2] < cursor'[r[1]]
<1> SUFFICES ASSUME NEW r \in Sent PROVE r[2] < cursor'[r[1]]
  OBVIOUS
<1>1. r[1] \in Partitions /\ r[2] \in Nat
  BY RowsTyped DEF RowId
<1>2. r[2] < cursor[r[1]] /\ cursor[r[1]] <= cursor'[r[1]]
  BY <1>1 DEF LiveInv, Advances
<1>3. cursor[r[1]] \in Nat /\ cursor'[r[1]] \in Nat
  BY <1>1 DEF TypeInv, Advances
<1> QED BY <1>1, <1>2, <1>3

\* The pump holds b.
LEMMA HoldStep ==
  ASSUME StreamInv, NEW b, Flushable(b, cursor'), Advances, Accounted(b), ReadUp,
         pump = "scanning", pump' = "scanning", Speaks(<<>>), batch' = b
  PROVE  StreamInv'
<1>1. TypeInv /\ EndInv /\ WireInv /\ ScanInv /\ CoverInv /\ LiveInv /\ StoreInv
  BY DEF StreamInv
<1>2. Plain(<<>>) /\ NoDone(<<>>) /\ AllRows(<<>>) = {}
  BY PlainNone, DoneFew DEF Plain
<1>3. Goes(<<>>)
  BY <1>2 DEF Goes, Waiting
<1>4. TypeInv'
  BY <1>1, SpeaksType DEF Flushable, Advances, Accounted
<1>5. EndInv' /\ WireInv' /\ StoreInv'
  BY <1>1, <1>3, SpeaksEnd, SpeaksWire
<1>6. CoverInv'
  <2>1. Bounded /\ shown = 0 /\ dropped = 0 => owed' \subseteq Sent \cup AllRows(<<>>) \cup Range(batch')
    BY <1>2 DEF Accounted
  <2>2. Covers(Sent, <<>>)
    BY <1>2, PlainSays
  <2> QED BY <1>1, <2>1, <2>2, SpeaksCover
<1>7. LiveInv'
  <2>1. Ascends(Sent, <<>>)
    BY <1>2, PlainSays
  <2>2. Live => \A r \in Sent \cup AllRows(<<>>) : r[2] < cursor'[r[1]]
    BY <1>1, <1>2, SentBehind
  <2>3. Live => \A s \in Range(batch'), r \in Sent \cup AllRows(<<>>) : r[1] = s[1] => r[2] < s[2]
    BY <1>2 DEF Flushable
  <2> QED BY <1>1, <2>1, <2>2, <2>3, SpeaksLive
<1>8. ScanInv'
  <2>1. query' = query
    BY DEF Speaks, fixed
  <2>2. /\ Due' = Due /\ (Forward' <=> Forward) /\ (Backward' <=> Backward)
        /\ \A p : Begin(p)' = Begin(p)
    BY <2>1, QueryStays
  <2>3. (\A r \in Range(batch) : r[2] < cursor[r[1]])'
    BY DEF Flushable, Range
  <2> QED BY <1>1, <2>1, <2>2, <2>3 DEF ScanInv, Closing, ReadUp
<1> QED BY <1>1, <1>4, <1>5, <1>6, <1>7, <1>8 DEF StreamInv

\* The pump flushes b, and says the rest.
LEMMA FlushStep ==
  ASSUME StreamInv, NEW b, NEW rest, Flushable(b, cursor'), Advances, Accounted(b), ReadUp, Plain(rest),
         \/ pump' = "scanning" /\ NoDone(rest)
         \/ pump' = "closing" /\ Ends(rest) /\ (~cut' => Bounded),
         pump = "scanning", Speaks(Flushed(b) \o rest), batch' = <<>>
  PROVE  StreamInv'
<1>1. TypeInv /\ EndInv /\ WireInv /\ ScanInv /\ CoverInv /\ LiveInv /\ StoreInv
  BY DEF StreamInv
<1>2. PICK fs : fs = Flushed(b) \o rest
  OBVIOUS
<1>3. b \in Batches /\ Range(b) \subseteq RowId
  BY RangeOfSeq DEF Flushable, Batches
<1>4. /\ fs \in Seq(Frames) /\ AllRows(fs) = Range(b)
      /\ NoDone(rest) => NoDone(fs)
      /\ Ends(rest) => Ends(fs)
      /\ \A base : (\A r \in Range(b) : Earlier(r) \subseteq base \cup Range(b)) => Covers(base, fs)
      /\ \A base : (\A s \in Range(b), r \in base : r[1] = s[1] => r[2] < s[2]) => Ascends(base, fs)
  BY <1>2, <1>3, FlushSays
<1>5. Speaks(fs) /\ Goes(fs)
  BY <1>2, <1>4 DEF Goes, Waiting
<1>6. batch' \in Batches /\ Range(batch') = {}
  BY EmptySeq DEF Batches, Ascending, Range
<1>7. TypeInv'
  BY <1>1, <1>5, <1>6, SpeaksType DEF Advances, Accounted
<1>8. EndInv' /\ WireInv' /\ StoreInv'
  BY <1>1, <1>5, SpeaksEnd, SpeaksWire
<1>9. CoverInv'
  <2>1. Bounded /\ shown = 0 /\ dropped = 0 => owed' \subseteq Sent \cup AllRows(fs) \cup Range(batch')
    BY <1>4 DEF Accounted
  <2>2. Forward /\ shown = 0 /\ dropped = 0 => Covers(Sent, fs)
    BY <1>4 DEF Flushable
  <2> QED BY <1>1, <1>5, <2>1, <2>2, SpeaksCover
<1>10. LiveInv'
  <2>1. Live => Ascends(Sent, fs)
    BY <1>4 DEF Flushable
  <2>2. Live => \A r \in Sent \cup AllRows(fs) : r[2] < cursor'[r[1]]
    BY <1>1, <1>4, SentBehind DEF Flushable
  <2>3. \A s \in Range(batch'), r \in Sent \cup AllRows(fs) : r[1] = s[1] => r[2] < s[2]
    BY <1>6
  <2> QED BY <1>1, <1>5, <2>1, <2>2, <2>3, SpeaksLive
<1>11. ScanInv'
  <2>1. query' = query
    BY DEF Speaks, fixed
  <2>2. /\ Due' = Due /\ (Forward' <=> Forward) /\ (Backward' <=> Backward) /\ (Bounded' <=> Bounded)
        /\ \A p : Begin(p)' = Begin(p)
    BY <2>1, QueryStays
  <2>3. (\A r \in Range(batch) : r[2] < cursor[r[1]])'
    BY <1>6 DEF Range
  <2>4. pump' \in {"scanning", "closing"} /\ (pump' = "closing" /\ ~cut' => Bounded)
    OBVIOUS
  <2> QED BY <1>1, <2>1, <2>2, <2>3, <2>4 DEF ScanInv, Closing, ReadUp
<1> QED BY <1>1, <1>7, <1>8, <1>9, <1>10, <1>11 DEF StreamInv

\* What the scan holds may be flushed.
LEMMA BatchFlushable ==
  ASSUME StreamInv, pump = "scanning"
  PROVE  Flushable(batch, cursor)
<1>1. TypeInv /\ EndInv /\ WireInv /\ ScanInv /\ CoverInv /\ LiveInv /\ StoreInv
  BY DEF StreamInv
<1>2. \A r \in Range(batch) : r[2] < cursor[r[1]]
  BY <1>1 DEF ScanInv
<1>3. Live => \A s \in Range(batch), r \in Sent : r[1] = s[1] => r[2] < s[2]
  BY <1>1 DEF LiveInv
<1>4. ASSUME Forward, shown = 0, dropped = 0, NEW r \in Range(batch) PROVE Earlier(r) \subseteq Sent \cup Range(batch)
  <2> SUFFICES ASSUME NEW d \in Earlier(r) PROVE d \in Sent \cup Range(batch)
    OBVIOUS
  <2>1. d \in Due /\ d[1] = r[1] /\ d[2] < r[2]
    BY DEF Earlier, Before
  <2>2. r[2] < cursor[r[1]] /\ r \in RowId /\ d \in RowId /\ cursor[r[1]] \in Nat
    <3>1. r \in RowId /\ d \in RowId
      BY <1>1, <2>1, RowsTyped
    <3> QED BY <1>1, <3>1 DEF ScanInv, TypeInv, RowId
  <2>3. d[2] < cursor[d[1]]
    <3>1. d[2] \in Nat /\ r[2] \in Nat
      BY <2>2 DEF RowId
    <3> QED BY <2>1, <2>2, <3>1
  <2>4. d \in owed
    BY <1>1, <1>4, <2>1, <2>3 DEF ScanInv
  <2>5. Bounded
    BY <1>4 DEF Forward, Bounded
  <2> QED BY <1>1, <1>4, <2>4, <2>5 DEF CoverInv
<1>5. batch \in Batches
  BY <1>1 DEF TypeInv
<1> QED BY <1>2, <1>3, <1>4, <1>5 DEF Flushable

\* A scan that stands still: its batch may be flushed, and accounts for what
\* it owes.
LEMMA StandsStill ==
  ASSUME StreamInv, pump = "scanning", UNCHANGED <<cursor, owed>>
  PROVE  Flushable(batch, cursor') /\ Advances /\ Accounted(batch) /\ ReadUp
<1>1. TypeInv /\ EndInv /\ WireInv /\ ScanInv /\ CoverInv /\ LiveInv /\ StoreInv
  BY DEF StreamInv
<1>2. Advances
  BY <1>1 DEF TypeInv, Advances
<1>3. ReadUp
  BY <1>1 DEF ScanInv, ReadUp
<1>4. Accounted(batch)
  BY <1>1 DEF TypeInv, CoverInv, Accounted
<1>5. Flushable(batch, cursor')
  BY BatchFlushable DEF Flushable
<1> QED BY <1>2, <1>3, <1>4, <1>5

\* A flush and nothing else.
LEMMA FlushedAlone ==
  ASSUME NEW b \in Batches
  PROVE  Flushed(b) \in Seq(Frames) /\ Flushed(b) \o <<>> = Flushed(b)
<1>1. CASE b = <<>>
  BY <1>1, EmptySeq, ConcatEmptySeq DEF Flushed
<1>2. CASE b # <<>>
  <2>1. Rows(b) \in Frames
    BY <1>2, RowFrames
  <2>2. <<Rows(b)>> \in Seq(Frames)
    BY <2>1
  <2> QED BY <1>2, <2>2, ConcatEmptySeq DEF Flushed
<1> QED BY <1>1, <1>2

\* The interval flushes the batch.
LEMMA FlushTick == ASSUME StreamInv, Flush PROVE StreamInv'
<1>1. pump = "scanning" /\ pump' = "scanning" /\ batch' = <<>> /\ UNCHANGED <<cursor, owed>>
  BY DEF Flush, At
<1>2. Flushable(batch, cursor') /\ Advances /\ Accounted(batch) /\ ReadUp
  BY <1>1, StandsStill
<1>3. Plain(<<>>) /\ NoDone(<<>>)
  BY PlainNone, DoneFew
<1>4. Flushed(batch) \in Seq(Frames) /\ Flushed(batch) \o <<>> = Flushed(batch)
  BY <1>2, FlushedAlone DEF Flushable
<1>5. Speaks(Flushed(batch) \o <<>>)
  BY <1>1, <1>4 DEF Speaks, Flush, At, Says, Waiting, fixed
<1> QED BY <1>1, <1>2, <1>3, <1>5, FlushStep

\* The scan is over: the batch, the last progress, then `done`.
LEMMA ScanEndsStep == ASSUME StreamInv, ScanEnds PROVE StreamInv'
<1>1. pump = "scanning" /\ pump' = "closing" /\ batch' = <<>> /\ Bounded /\ UNCHANGED <<cursor, owed>>
  BY DEF ScanEnds, At, Spent
<1>2. Flushable(batch, cursor') /\ Advances /\ Accounted(batch) /\ ReadUp
  BY <1>1, StandsStill
<1>3. PICK last : last \in {<<>>, <<Progress>>} /\ outbox' = Flushed(batch) \o last \o <<Done>>
  BY DEF ScanEnds, Says
<1>4. PICK rest : rest = last \o <<Done>>
  OBVIOUS
<1>5. Plain(<<Done>>) /\ Ends(<<Done>>) /\ Plain(last) /\ NoDone(last)
  <2>1. Progress \in Frames /\ RowsOf(Progress) = {} /\ Progress # Done
    BY PlainFrames
  <2>2. Plain(<<Progress>>) /\ NoDone(<<Progress>>)
    BY <2>1, PlainOne, DoneFew
  <2> QED BY <1>3, <2>1, <2>2, PlainNone, DoneFew, TwoFrames
<1>6. Plain(rest) /\ Ends(rest)
  <2>1. last \in Seq(Frames) /\ <<Done>> \in Seq(Frames) /\ <<Done>> # <<>>
    BY <1>5 DEF Plain
  <2> QED BY <1>4, <1>5, <2>1, PlainConcat, DoneConcat
<1>7. outbox' = Flushed(batch) \o rest
  <2>1. Flushed(batch) \in Seq(Frames) /\ last \in Seq(Frames) /\ <<Done>> \in Seq(Frames)
    <3>1. Flushed(batch) \in Seq(Frames)
      BY <1>2, FlushedAlone DEF Flushable
    <3> QED BY <1>5, <3>1 DEF Plain
  <2>2. PICK g, e : g = Flushed(batch) /\ e = <<Done>>
    OBVIOUS
  <2>3. g \in Seq(Frames) /\ last \in Seq(Frames) /\ e \in Seq(Frames)
    BY <2>1, <2>2
  <2>4. Cat(Cat(g, last), e) = Cat(g, Cat(last, e))
    BY <2>3, Associative
  <2> QED BY <1>3, <1>4, <2>2, <2>4 DEF Cat
<1>8. Flushed(batch) \o rest \in Seq(Frames)
  BY <1>2, <1>6, FlushSays DEF Flushable
<1>9. Speaks(Flushed(batch) \o rest)
  BY <1>1, <1>7, <1>8 DEF Speaks, ScanEnds, At, Waiting
<1> QED BY <1>1, <1>2, <1>6, <1>9, FlushStep

\* The scan breaks: the batch, an error, then `done`.
LEMMA ScanFailsStep == ASSUME StreamInv, ScanFails PROVE StreamInv'
<1>1. /\ pump = "scanning" /\ pump' = "closing" /\ batch' = <<>> /\ cut' = TRUE
      /\ UNCHANGED <<cursor, owed>>
  BY DEF ScanFails, At
<1>2. Flushable(batch, cursor') /\ Advances /\ Accounted(batch) /\ ReadUp
  BY <1>1, StandsStill
<1>3. PICK rest : rest = <<Failed, Done>>
  OBVIOUS
<1>4. Plain(rest) /\ Ends(rest)
  <2>1. Failed \in Frames /\ RowsOf(Failed) = {} /\ Failed # Done
    BY PlainFrames
  <2> QED BY <1>3, <2>1, TwoFrames
<1>5. outbox' = Flushed(batch) \o rest
  BY <1>3 DEF ScanFails, Says
<1>6. Flushed(batch) \o rest \in Seq(Frames)
  BY <1>2, <1>4, FlushSays DEF Flushable
<1>7. Speaks(Flushed(batch) \o rest)
  BY <1>1, <1>5, <1>6 DEF Speaks, ScanFails, At, Waiting
<1> QED BY <1>1, <1>2, <1>4, <1>7, FlushStep

\* The scan reads the next record of p.
ReadsOn(p) ==
  /\ pump = "scanning" /\ p \in query.partitions /\ InWindow(p)
  /\ cursor' = Read(p, cursor[p]) /\ owed' = Owes(p, cursor[p])

\* Where the scan then is.
LEMMA ReadsOnTyped ==
  ASSUME StreamInv, NEW p, ReadsOn(p)
  PROVE  /\ p \in Partitions /\ cursor[p] \in Nat /\ Len(Log[p]) \in Nat /\ cursor[p] < Len(Log[p])
         /\ cursor[p] \in Offsets
         /\ cursor' \in [Partitions -> Nat]
         /\ cursor'[p] = cursor[p] + 1
         /\ \A q \in Partitions : q # p => cursor'[q] = cursor[q]
         /\ ~Backward /\ (Forward <=> ~Live)
<1>1. p \in Partitions /\ cursor \in [Partitions -> Nat] /\ query.mode \in {"oldest", "newest", "fromOffset", "live"}
  BY StreamAssumption DEF StreamInv, TypeInv, ReadsOn
<1>2. Len(Log[p]) \in Nat /\ cursor[p] < Len(Log[p]) /\ cursor[p] \in Nat
  BY <1>1, StreamAssumption DEF ReadsOn, InWindow
<1>3. cursor[p] \in 0 .. Len(Log[p])
  BY <1>2
<1>4. cursor[p] \in Offsets
  BY <1>1, <1>3 DEF Offsets
<1>5. cursor' = [cursor EXCEPT ![p] = cursor[p] + 1]
  BY DEF ReadsOn, Read
<1>6. ~Backward
  BY DEF StreamInv, ScanInv, ReadsOn
<1>7. Forward <=> ~Live
  BY <1>1, <1>6 DEF Forward, Live, Backward
<1> QED BY <1>1, <1>2, <1>4, <1>5, <1>6, <1>7

\* What the reader is then owed.
LEMMA ReadsOnOwes ==
  ASSUME StreamInv, NEW p, ReadsOn(p)
  PROVE  /\ Advances /\ ReadUp
         /\ owed' \subseteq RowId
         /\ owed' \subseteq owed \cup {<<p, cursor[p]>>}
         /\ ~Kept(p, cursor[p]) => owed' = owed
<1>1. TypeInv /\ ScanInv
  BY DEF StreamInv
<1>2. PICK o : o = cursor[p]
  OBVIOUS
<1>3. /\ p \in Partitions /\ o \in Nat /\ Len(Log[p]) \in Nat /\ o < Len(Log[p])
      /\ cursor' \in [Partitions -> Nat] /\ cursor'[p] = o + 1
      /\ \A q \in Partitions : q # p => cursor'[q] = cursor[q]
  BY <1>2, ReadsOnTyped
<1>4. cursor \in [Partitions -> Nat] /\ owed \subseteq RowId /\ query.partitions \subseteq Partitions
  BY <1>1, StreamAssumption DEF TypeInv
<1>5. \A q \in Partitions : cursor[q] <= cursor'[q]
  <2> SUFFICES ASSUME NEW q \in Partitions PROVE cursor[q] <= cursor'[q]
    OBVIOUS
  <2>1. cursor[q] \in Nat
    BY <1>4
  <2>2. CASE q = p
    BY <1>2, <1>3, <2>2
  <2>3. CASE q # p
    BY <1>3, <2>1, <2>3
  <2> QED BY <2>2, <2>3
<1>6. /\ owed' \subseteq owed \cup {<<p, o>>} /\ (~Kept(p, o) => owed' = owed) /\ owed \subseteq owed'
      /\ Kept(p, o) /\ ~(query.mode = "fromOffset" /\ o < query.from) => <<p, o>> \in owed'
  BY <1>2 DEF ReadsOn, Owes
<1>7. owed' \subseteq RowId
  BY <1>3, <1>4, <1>6 DEF RowId
<1>8. ASSUME Forward
      PROVE  /\ \A q \in query.partitions : Begin(q) <= cursor'[q]
             /\ \A d \in Due : d[2] < cursor'[d[1]] => d \in owed'
  <2>1. /\ \A q \in query.partitions : Begin(q) <= cursor[q]
        /\ \A d \in Due : d[2] < cursor[d[1]] => d \in owed
    BY <1>1, <1>8 DEF ScanInv, ReadsOn
  <2>2. \A q \in query.partitions : Begin(q) \in Nat
    <3>1. query.from \in Nat
      BY <1>1, StreamAssumption DEF TypeInv
    <3>2. \A q \in Partitions : Len(Log[q]) \in Nat
      BY StreamAssumption
    <3> QED BY <1>4, <3>1, <3>2 DEF Begin
  <2>3. ASSUME NEW q \in query.partitions PROVE Begin(q) <= cursor'[q]
    <3>1. Begin(q) \in Nat /\ cursor[q] \in Nat /\ cursor'[q] \in Nat
      BY <1>3, <1>4, <2>2
    <3>2. Begin(q) <= cursor[q] /\ cursor[q] <= cursor'[q]
      BY <1>4, <1>5, <2>1
    <3> QED BY <3>1, <3>2
  <2>4. ASSUME NEW d \in Due, d[2] < cursor'[d[1]] PROVE d \in owed'
    <3>1. /\ d \in RowId /\ d[1] \in query.partitions /\ d[2] \in Nat /\ d[1] \in Partitions /\ d = <<d[1], d[2]>>
          /\ Begin(d[1]) <= d[2] /\ d[2] < Len(Log[d[1]]) /\ Kept(d[1], d[2])
      <4>1. d \in RowId
        BY <1>1, RowsTyped
      <4>2. d \in query.partitions \X Offsets /\ Begin(d[1]) <= d[2] /\ d[2] < Len(Log[d[1]]) /\ Kept(d[1], d[2])
        BY DEF Due
      <4> QED BY <4>1, <4>2 DEF RowId
    <3>2. CASE d[2] < cursor[d[1]]
      BY <1>6, <2>1, <3>2
    <3>3. CASE ~(d[2] < cursor[d[1]])
      <4>1. d[1] = p
        BY <1>3, <2>4, <3>1, <3>3
      <4>2. d[2] = o
        BY <1>2, <1>3, <2>4, <3>1, <3>3, <4>1
      <4>3. ~(query.mode = "fromOffset" /\ o < query.from)
        <5> SUFFICES ASSUME query.mode = "fromOffset", o < query.from PROVE FALSE
          OBVIOUS
        <5>1. query.from \in Nat
          BY <1>1, StreamAssumption DEF TypeInv
        <5>2. Begin(p) <= o /\ o < Len(Log[p])
          BY <1>3, <3>1, <4>1, <4>2
        <5>3. Begin(p) = IF query.from <= Len(Log[p]) THEN query.from ELSE Len(Log[p])
          BY DEF Begin
        <5> QED BY <1>3, <5>1, <5>2, <5>3
      <4>4. <<p, o>> \in owed'
        BY <1>6, <3>1, <4>1, <4>2, <4>3
      <4> QED BY <3>1, <4>1, <4>2, <4>4
    <3> QED BY <3>2, <3>3
  <2> QED BY <2>3, <2>4
<1> QED BY <1>2, <1>3, <1>5, <1>6, <1>7, <1>8 DEF Advances, ReadUp

\* The batch may still be flushed, and so may the batch with the new row.
LEMMA ReadsOnHolds ==
  ASSUME StreamInv, NEW p, ReadsOn(p)
  PROVE  Flushable(batch, cursor') /\ (~Kept(p, cursor[p]) => Accounted(batch))
<1>1. TypeInv /\ ScanInv /\ CoverInv
  BY DEF StreamInv
<1>2. Flushable(batch, cursor) /\ Advances /\ owed' \subseteq RowId /\ (~Kept(p, cursor[p]) => owed' = owed)
  BY BatchFlushable, ReadsOnOwes DEF ReadsOn
<1>3. ASSUME NEW r \in Range(batch) PROVE r[2] < cursor'[r[1]]
  <2>1. r[1] \in Partitions /\ r[2] \in Nat
    BY <1>1, RowsTyped DEF RowId
  <2>2. r[2] < cursor[r[1]] /\ cursor[r[1]] <= cursor'[r[1]] /\ cursor[r[1]] \in Nat /\ cursor'[r[1]] \in Nat
    BY <1>1, <1>2, <2>1 DEF Flushable, Advances, TypeInv
  <2> QED BY <2>1, <2>2
<1>4. Flushable(batch, cursor')
  BY <1>2, <1>3 DEF Flushable
<1>5. ~Kept(p, cursor[p]) => Accounted(batch)
  BY <1>1, <1>2 DEF CoverInv, Accounted
<1> QED BY <1>4, <1>5

\* A batch that takes a kept record may be flushed.
LEMMA ReadsOnGrows ==
  ASSUME StreamInv, NEW p, ReadsOn(p), Kept(p, cursor[p])
  PROVE  LET b == Append(batch, <<p, cursor[p]>>)
         IN  Flushable(b, cursor') /\ Accounted(b)
<1>1. TypeInv /\ ScanInv /\ CoverInv /\ LiveInv
  BY DEF StreamInv
<1>2. PICK o, row, b : o = cursor[p] /\ row = <<p, o>> /\ b = Append(batch, row)
  OBVIOUS
<1>3. /\ p \in Partitions /\ o \in Nat /\ o < Len(Log[p]) /\ o \in Offsets
      /\ cursor'[p] = o + 1 /\ ~Backward
  BY <1>2, ReadsOnTyped
<1>4. row \in RowId /\ row[1] = p /\ row[2] = o
  BY <1>2, <1>3 DEF RowId
<1>5. /\ batch \in Batches /\ batch \in Seq(RowId) /\ (~Backward => Ascending(batch)) /\ (Forward => Range(batch) \subseteq Due)
      /\ Range(batch) \subseteq RowId
  BY <1>1, RangeOfSeq DEF TypeInv, Batches
<1>6. PICK n : n = Len(batch)
  OBVIOUS
<1>7. /\ b \in Seq(RowId) /\ Len(b) = n + 1 /\ n \in Nat
      /\ \A i \in 1 .. n : b[i] = batch[i]
      /\ b[n + 1] = row
  BY <1>2, <1>4, <1>5, <1>6, AppendProperties, LenProperties
<1>8. Range(b) = Range(batch) \cup {row}
  <2>1. b = batch \o <<row>> /\ <<row>> \in Seq(RowId)
    <3>1. <<row>> \in Seq(RowId)
      BY <1>4
    <3>2. Append(batch, row) = batch \o <<row>>
      BY <1>4, <1>5, AppendIsConcat
    <3> QED BY <1>2, <3>1, <3>2
  <2>2. Range(batch \o <<row>>) = Range(batch) \cup Range(<<row>>)
    BY <1>5, <2>1, RangeConcatenation
  <2>3. Range(<<row>>) = {row}
    BY DEF Range
  <2> QED BY <2>1, <2>2, <2>3
<1>9. Range(batch) = {batch[i] : i \in 1 .. n}
  BY <1>5, <1>6, RangeEquality
<1>10. /\ Flushable(batch, cursor) /\ Flushable(batch, cursor') /\ owed' \subseteq RowId
       /\ owed' \subseteq owed \cup {row}
  BY <1>2, BatchFlushable, ReadsOnHolds, ReadsOnOwes DEF ReadsOn
<1>11. Ascending(b)
  <2> SUFFICES ASSUME NEW i \in 1 .. n + 1, NEW j \in 1 .. n + 1, i < j, b[i][1] = b[j][1] PROVE b[i][2] < b[j][2]
    BY <1>7 DEF Ascending
  <2>1. i \in 1 .. n
    BY <1>7
  <2>2. CASE j \in 1 .. n
    BY <1>3, <1>5, <1>6, <1>7, <2>1, <2>2 DEF Ascending
  <2>3. CASE j = n + 1
    <3>1. b[j] = row /\ b[i] \in Range(batch)
      BY <1>7, <1>9, <2>1, <2>3
    <3>2. b[i][2] < cursor[b[i][1]]
      BY <1>10, <3>1 DEF Flushable
    <3> QED BY <1>2, <1>4, <3>1, <3>2
  <2> QED BY <1>7, <2>2, <2>3
<1>12. ASSUME Forward PROVE row \in Due
  <2>1. Begin(p) <= o
    BY <1>1, <1>2, <1>12 DEF ScanInv, ReadsOn
  <2> QED BY <1>2, <1>3, <1>4, <2>1 DEF Due, ReadsOn
<1>13. b \in Batches
  BY <1>5, <1>7, <1>8, <1>11, <1>12 DEF Batches
<1>14. \A r \in Range(b) : r[2] < cursor'[r[1]]
  BY <1>3, <1>4, <1>8, <1>10 DEF Flushable
<1>15. ASSUME Live, NEW s \in Range(b), NEW r \in Sent, r[1] = s[1] PROVE r[2] < s[2]
  <2>1. CASE s \in Range(batch)
    BY <1>10, <1>15, <2>1 DEF Flushable
  <2>2. CASE s = row
    <3>1. r[2] < cursor[r[1]]
      BY <1>1, <1>15 DEF LiveInv
    <3> QED BY <1>2, <1>4, <1>15, <2>2, <3>1
  <2> QED BY <1>8, <2>1, <2>2
<1>16. ASSUME Forward, shown = 0, dropped = 0, NEW r \in Range(b) PROVE Earlier(r) \subseteq Sent \cup Range(b)
  <2>1. CASE r \in Range(batch)
    BY <1>8, <1>10, <1>16, <2>1 DEF Flushable
  <2>2. CASE r = row
    <3> SUFFICES ASSUME NEW d \in Earlier(row) PROVE d \in Sent \cup Range(b)
      BY <2>2
    <3>1. d \in Due /\ d[1] = p /\ d[2] < o
      BY <1>4 DEF Earlier, Before
    <3>2. d \in owed
      BY <1>1, <1>2, <1>16, <3>1 DEF ScanInv, ReadsOn
    <3>3. Bounded
      BY <1>16 DEF Forward, Bounded
    <3> QED BY <1>1, <1>8, <1>16, <3>2, <3>3 DEF CoverInv
  <2> QED BY <1>8, <2>1, <2>2
<1>17. Flushable(b, cursor')
  BY <1>13, <1>14, <1>15, <1>16 DEF Flushable
<1>18. Accounted(b)
  BY <1>1, <1>8, <1>10 DEF CoverInv, Accounted
<1> QED BY <1>2, <1>17, <1>18

\* A record below the floor is not owed, or is on screen.
LEMMA FloorHolds ==
  ASSUME StreamInv, NEW p, ReadsOn(p), BelowFloor(cursor[p]), Entry(p, cursor[p]) # "bad"
  PROVE  Accounted(batch)
<1>1. TypeInv /\ ScanInv /\ CoverInv
  BY DEF StreamInv
<1>2. PICK o : o = cursor[p]
  OBVIOUS
<1>3. /\ p \in Partitions /\ o \in Nat /\ Len(Log[p]) \in Nat /\ o < Len(Log[p]) /\ o \in Offsets
      /\ ~Backward /\ (Forward <=> ~Live)
  BY <1>2, ReadsOnTyped
<1>4. owed' \subseteq RowId /\ owed' \subseteq owed \cup {<<p, o>>} /\ (~Kept(p, o) => owed' = owed)
  BY <1>2, ReadsOnOwes
<1> SUFFICES ASSUME Bounded, shown = 0, dropped = 0, owed' # owed, <<p, o>> \in owed' PROVE <<p, o>> \in Sent
  BY <1>1, <1>4 DEF CoverInv, Accounted
<1>5. Forward
  BY <1>3 DEF Live, Bounded
<1>6. Kept(p, o) /\ Entry(p, o) = "hit"
  <2>1. Kept(p, o)
    BY <1>4
  <2>2. Entry(p, o) \in {"hit", "miss", "bad"}
    <3>1. o + 1 \in 1 .. Len(Log[p])
      BY <1>3
    <3>2. Log[p] \in Seq({"hit", "miss", "bad"})
      BY <1>3, StreamAssumption
    <3> QED BY <3>1, <3>2, ElementOfSeq DEF Entry
  <2> QED BY <1>2, <2>1, <2>2 DEF Kept
<1>7. ~(query.mode = "fromOffset" /\ o < query.from)
  BY <1>2, <1>6 DEF ReadsOn, Owes
<1>8. Floor # NoId /\ o < Floor
  BY <1>2 DEF BelowFloor
<1>9. PICK asked : asked = IF query.mode = "fromOffset" THEN query.from ELSE NoId
  OBVIOUS
<1>10. Floor = ResumeFloor(asked, resume, query.partitions)
  BY <1>9 DEF Floor
<1>11. Floor # asked
  BY <1>7, <1>8, <1>9
<1>12. Resumable(resume, query.partitions) /\ Floor = resume[2] + 1
  BY <1>10, <1>11 DEF ResumeFloor
<1>13. resume \in OnScreen /\ resume[1] = p /\ resume \in RowId /\ resume[2] \in Nat
  <2>1. resume # NoId /\ query.partitions = {resume[1]}
    BY <1>12 DEF Resumable
  <2>2. resume \in OnScreen /\ resume \in RowId
    BY <1>1, <2>1, RowsTyped DEF TypeInv
  <2> QED BY <2>1, <2>2 DEF ReadsOn, RowId
<1>14. CASE o = resume[2]
  <2>1. resume = <<p, o>>
    BY <1>13, <1>14 DEF RowId
  <2> QED BY <1>13, <2>1 DEF Sent, Written
<1>15. CASE o < resume[2]
  <2>1. Begin(p) <= o
    BY <1>1, <1>2, <1>5 DEF ScanInv, ReadsOn
  <2>2. PICK d : d = <<p, o>>
    OBVIOUS
  <2>3. d[1] = p /\ d[2] = o /\ d \in query.partitions \X Offsets
    BY <1>3, <2>2 DEF ReadsOn
  <2>4. d \in Due
    BY <1>3, <1>6, <2>1, <2>3 DEF Due
  <2>5. d \in Earlier(resume)
    BY <1>13, <1>15, <2>3, <2>4 DEF Earlier, Before
  <2>6. d \in OnScreen
    BY <1>1, <1>5, <1>13, <2>5 DEF CoverInv
  <2> QED BY <2>2, <2>6 DEF Sent, Written
<1> QED BY <1>3, <1>8, <1>12, <1>13, <1>14, <1>15

\* A record below the floor, one that fills the batch, or one it holds.
LEMMA RecordStep == ASSUME StreamInv, NEW p \in Partitions, Record(p) PROVE StreamInv'
<1>1. PICK o, grown : /\ o = cursor[p]
                      /\ grown = IF Kept(p, o) THEN Append(batch, <<p, o>>) ELSE batch
  OBVIOUS
<1>2. /\ ReadsOn(p) /\ outbox = <<>> /\ pump' = "scanning" /\ Entry(p, o) # "bad"
      /\ IF BelowFloor(o) THEN batch' = batch /\ outbox' = outbox
         ELSE IF Len(grown) >= MaxRows THEN batch' = <<>> /\ outbox' = Flushed(grown)
         ELSE batch' = grown /\ outbox' = outbox
      /\ UNCHANGED <<slots, fixed, writerVars, readerVars>>
  BY <1>1 DEF Record, ReadsOn, At, Says
<1>3. pump = "scanning" /\ Advances /\ ReadUp
  BY <1>2, ReadsOnOwes DEF ReadsOn
<1>4. Plain(<<>>) /\ NoDone(<<>>) /\ <<>> \in Seq(Frames)
  BY PlainNone, DoneFew DEF Plain
<1>5. Flushable(grown, cursor') /\ Accounted(grown)
  BY <1>1, <1>2, ReadsOnGrows, ReadsOnHolds
<1>6. CASE BelowFloor(o)
  <2>1. Flushable(batch, cursor') /\ Accounted(batch)
    BY <1>1, <1>2, <1>6, ReadsOnHolds, FloorHolds
  <2>2. Speaks(<<>>) /\ batch' = batch
    BY <1>2, <1>3, <1>4, <1>6 DEF Speaks, Waiting
  <2> QED BY <1>2, <1>3, <2>1, <2>2, HoldStep
<1>7. CASE ~BelowFloor(o) /\ Len(grown) >= MaxRows
  <2>1. Flushed(grown) \in Seq(Frames) /\ Flushed(grown) \o <<>> = Flushed(grown)
    BY <1>5, FlushedAlone DEF Flushable
  <2>2. Speaks(Flushed(grown) \o <<>>) /\ batch' = <<>>
    BY <1>2, <1>3, <1>7, <2>1 DEF Speaks, Waiting
  <2> QED BY <1>2, <1>3, <1>4, <1>5, <2>2, FlushStep
<1>8. CASE ~BelowFloor(o) /\ ~(Len(grown) >= MaxRows)
  <2>1. Speaks(<<>>) /\ batch' = grown
    BY <1>2, <1>3, <1>4, <1>8 DEF Speaks, Waiting
  <2> QED BY <1>2, <1>3, <1>5, <2>1, HoldStep
<1> QED BY <1>6, <1>7, <1>8

\* A record that does not decode joins the batch behind the others.
LEMMA MalformedStep == ASSUME StreamInv, NEW p \in Partitions, Malformed(p) PROVE StreamInv'
<1>1. PICK b : b = Append(batch, <<p, cursor[p]>>)
  OBVIOUS
<1>2. /\ ReadsOn(p) /\ outbox = <<>> /\ outbox' = <<>> /\ pump' = "scanning" /\ Kept(p, cursor[p]) /\ batch' = b
      /\ UNCHANGED <<slots, fixed, writerVars, readerVars>>
  BY <1>1 DEF Malformed, ReadsOn, At, Kept
<1>3. pump = "scanning" /\ Advances /\ ReadUp
  BY <1>2, ReadsOnOwes DEF ReadsOn
<1>4. Flushable(b, cursor') /\ Accounted(b)
  BY <1>1, <1>2, ReadsOnGrows
<1>5. Speaks(<<>>)
  BY <1>2, <1>3, EmptySeq DEF Speaks, Waiting
<1> QED BY <1>2, <1>3, <1>4, <1>5, HoldStep

-----------------------------------------------------------------------------
(***************************************************************************)
(* A backward window                                                       *)
(***************************************************************************)

\* Chunks of m rows: where each begins, and that every row is in one.
LEMMA ChunkBegins ==
  ASSUME NEW n \in Nat, NEW m \in Nat \ {0}, NEW i \in 1 .. (n + m - 1) \div m
  PROVE  (i - 1) * m \in Nat /\ (i - 1) * m + 1 <= n /\ (i - 1) * m + 1 <= i * m /\ i * m \in Nat
<1>1. PICK q : q = (n + m - 1) \div m
  OBVIOUS
<1>2. q \in Nat /\ q * m <= n + m - 1
  BY <1>1
<1>3. i * m <= q * m
  BY <1>1, <1>2
<1>4. (i - 1) * m = i * m - m /\ i * m \in Nat /\ q * m \in Nat
  BY <1>1, <1>2
<1>5. (i - 1) * m \in Nat
  BY <1>1, <1>2
<1> QED BY <1>2, <1>3, <1>4, <1>5

\* Every position is in a chunk.
LEMMA ChunkOf ==
  ASSUME NEW n \in Nat, NEW m \in Nat \ {0}, NEW k \in 1 .. n
  PROVE  \E i \in 1 .. (n + m - 1) \div m : (i - 1) * m + 1 <= k /\ k <= i * m
<1>1. PICK q : q = (n + m - 1) \div m
  OBVIOUS
<1>2. q \in Nat /\ q * m <= n + m - 1 /\ n + m - 1 < q * m + m
  BY <1>1
<1>3. PICK j : j = (k - 1) \div m
  OBVIOUS
<1>4. j \in Nat /\ j * m <= k - 1 /\ k - 1 < j * m + m
  BY <1>3
<1>5. j * m + m < q * m + m
  <2>1. j * m \in Nat /\ q * m \in Nat
    BY <1>2, <1>4
  <2> QED BY <1>2, <1>4, <2>1
<1>6. j < q
  BY <1>2, <1>4, <1>5
<1>7. (j + 1) * m = j * m + m /\ j * m \in Nat
  BY <1>4
<1>8. j + 1 \in 1 .. q /\ (j + 1) - 1 = j
  BY <1>2, <1>4, <1>6
<1>9. j * m + 1 <= k /\ k <= (j + 1) * m
  BY <1>4, <1>7
<1> QED BY <1>1, <1>8, <1>9

\* The rows from the first to the last of s.
LEMMA Slice ==
  ASSUME NEW F, NEW s \in Seq(F), NEW a \in Nat \ {0}, NEW b \in Nat, a <= b, b <= Len(s)
  PROVE  /\ SubSeq(s, a, b) \in Seq(F) /\ SubSeq(s, a, b) # <<>>
         /\ \A k \in a .. b : s[k] \in Range(SubSeq(s, a, b))
<1>1. PICK u, n : u = SubSeq(s, a, b) /\ n = Len(s)
  OBVIOUS
<1>2. n \in Nat /\ \A i \in a .. b : s[i] \in F
  <2>1. n \in Nat /\ \A i \in 1 .. n : s[i] \in F
    BY <1>1, ElementOfSeq
  <2>2. \A i \in a .. b : i \in 1 .. n
    BY <1>1, <2>1
  <2> QED BY <2>1, <2>2
<1>3. u \in Seq(F) /\ Len(u) = b - a + 1 /\ \A i \in 1 .. b - a + 1 : u[i] = s[a + i - 1]
  <2>1. a \in Int /\ b \in Int
    OBVIOUS
  <2> QED BY <1>1, <1>2, <2>1, SubSeqProperties
<1>4. Range(u) = {u[i] : i \in 1 .. Len(u)}
  BY <1>3, RangeEquality
<1>5. \A k \in a .. b : s[k] \in Range(u)
  <2> SUFFICES ASSUME NEW k \in a .. b PROVE s[k] \in Range(u)
    OBVIOUS
  <2>1. PICK i : i = k - a + 1
    OBVIOUS
  <2>2. i \in 1 .. b - a + 1 /\ a + i - 1 = k
    BY <2>1
  <2> QED BY <1>3, <1>4, <2>2
<1>6. u # <<>>
  BY <1>3
<1> QED BY <1>1, <1>3, <1>5, <1>6

\* A backward window may be cut into chunks anywhere: every chunk is a frame,
\* and every row is in one.
LEMMA ChunksSay ==
  ASSUME Backward, NEW rs \in Seq(RowId)
  PROVE  Chunks(rs) \in Seq(Frames) /\ NoDone(Chunks(rs)) /\ Range(rs) \subseteq AllRows(Chunks(rs))
<1>1. PICK n, m, q : n = Len(rs) /\ m = MaxRows /\ q = (n + m - 1) \div m
  OBVIOUS
<1>2. n \in Nat /\ m \in Nat \ {0} /\ q \in Nat
  BY <1>1, StreamAssumption
<1> DEFINE last(i) == IF i * m < n THEN i * m ELSE n
           part(i) == SubSeq(rs, (i - 1) * m + 1, last(i))
<1>3. ASSUME NEW i \in 1 .. q
      PROVE  /\ part(i) \in Batches /\ part(i) # <<>>
             /\ \A k \in (i - 1) * m + 1 .. last(i) : rs[k] \in Range(part(i))
  <2>1. PICK a, b : a = (i - 1) * m + 1 /\ b = last(i)
    OBVIOUS
  <2>2. a \in Nat \ {0} /\ b \in Nat /\ a <= b /\ b <= n
    <3>1. (i - 1) * m \in Nat /\ (i - 1) * m + 1 <= n /\ (i - 1) * m + 1 <= i * m /\ i * m \in Nat
      BY <1>1, <1>2, ChunkBegins
    <3> QED BY <1>2, <2>1, <3>1
  <2>3. SubSeq(rs, a, b) \in Seq(RowId) /\ SubSeq(rs, a, b) # <<>> /\ \A k \in a .. b : rs[k] \in Range(SubSeq(rs, a, b))
    BY <1>1, <2>2, Slice
  <2>4. SubSeq(rs, a, b) \in Batches
    BY <2>3 DEF Batches, Backward, Forward
  <2> QED BY <2>1, <2>3, <2>4
<1>4. PICK c : c = Chunks(rs)
  OBVIOUS
<1>5. c = [i \in 1 .. q |-> Rows(part(i))]
  BY <1>1, <1>4 DEF Chunks
<1> HIDE DEF part, last
<1>6. ASSUME NEW i \in 1 .. q PROVE c[i] = Rows(part(i)) /\ c[i] \in Frames /\ c[i] # Done /\ RowsOf(c[i]) = Range(part(i))
  BY <1>3, <1>5, RowFrames
<1>7. c \in Seq(Frames) /\ Len(c) = q
  BY <1>2, <1>5, <1>6
<1>8. NoDone(c)
  BY <1>6, <1>7 DEF NoDone
<1>9. ASSUME NEW r \in Range(rs) PROVE r \in AllRows(c)
  <2>1. PICK k \in 1 .. n : r = rs[k]
    BY <1>1, RangeEquality
  <2>2. PICK i \in 1 .. q : (i - 1) * m + 1 <= k /\ k <= i * m
    BY <1>1, <1>2, ChunkOf
  <2>3. k \in (i - 1) * m + 1 .. last(i)
    <3>1. (i - 1) * m \in Nat /\ i * m \in Nat
      BY <1>1, <1>2, ChunkBegins
    <3> QED BY <1>2, <2>2, <3>1 DEF last
  <2>4. r \in RowsOf(c[i])
    BY <1>3, <1>6, <2>1, <2>3
  <2> QED BY <1>7, <2>4 DEF AllRows
<1> QED BY <1>4, <1>7, <1>8, <1>9

\* The logs are finite, so their offsets are.
LEMMA OffsetsFinite == IsFiniteSet(Offsets)
<1>1. PICK T : T = {0 .. Len(Log[p]) : p \in Partitions}
  OBVIOUS
<1>2. \A S \in T : IsFiniteSet(S)
  <2> SUFFICES ASSUME NEW p \in Partitions PROVE IsFiniteSet(0 .. Len(Log[p]))
    BY <1>1
  <2>1. Len(Log[p]) \in Int
    BY StreamAssumption
  <2> QED BY <2>1, FS_Interval
<1>3. IsFiniteSet(T)
  <2>1. PICK f : f = [p \in Partitions |-> 0 .. Len(Log[p])]
    OBVIOUS
  <2>2. f \in Surjection(Partitions, T)
    BY <1>1, <2>1 DEF Surjection
  <2> QED BY <2>2, FS_Surjection, StreamAssumption
<1> QED BY <1>1, <1>2, <1>3, FS_UNION DEF Offsets

\* The newest rows, cut to the limit.
LEMMA WindowRows ==
  ASSUME TypeInv, NEW hits \in SUBSET (query.partitions \X Offsets), NEW s \in NewestFirst(hits), NEW l \in Nat
  PROVE  SubSeq(s, 1, IF Len(s) < l THEN Len(s) ELSE l) \in Seq(RowId)
<1>1. query.partitions \subseteq Partitions /\ Offsets \subseteq Nat
  BY StreamAssumption DEF TypeInv, Offsets
<1>2. hits \subseteq RowId
  BY <1>1 DEF RowId
<1>3. Cardinality(hits) \in Nat
  <2>1. IsFiniteSet(query.partitions)
    BY <1>1, StreamAssumption, FS_Subset
  <2>2. IsFiniteSet(query.partitions \X Offsets)
    BY <2>1, OffsetsFinite, FS_Product
  <2>3. IsFiniteSet(hits)
    BY <2>2, FS_Subset
  <2> QED BY <2>3, FS_CardinalityType
<1>4. PICK n : n = Cardinality(hits)
  OBVIOUS
<1>5. s \in [1 .. n -> hits] /\ n \in Nat
  BY <1>3, <1>4 DEF NewestFirst
<1>6. s \in Seq(RowId) /\ Len(s) = n /\ \A i \in 1 .. n : s[i] \in RowId
  BY <1>2, <1>5
<1>7. PICK m : m = IF Len(s) < l THEN Len(s) ELSE l
  OBVIOUS
<1>8. m \in Nat /\ m <= n
  BY <1>5, <1>6, <1>7
<1>9. \A i \in 1 .. m : s[i] \in RowId
  BY <1>5, <1>6, <1>8
<1>10. SubSeq(s, 1, m) \in Seq(RowId)
  <2>1. m \in Int /\ 1 \in Int
    BY <1>8
  <2> QED BY <1>9, <2>1, SubSeqProperties
<1> QED BY <1>7, <1>10

\* A backward window: all it has to say in one go.
LEMMA ReadTailStep == ASSUME StreamInv, ReadTail PROVE StreamInv'
<1>1. TypeInv /\ EndInv /\ WireInv /\ ScanInv /\ CoverInv /\ LiveInv /\ StoreInv
  BY DEF StreamInv
<1>2. PICK hits, note, newest, window :
        /\ hits \in SUBSET (query.partitions \X Offsets)
        /\ note \in {<<>>, <<Failed>>}
        /\ newest \in NewestFirst(hits)
        /\ window = SubSeq(newest, 1, IF Len(newest) < Limit THEN Len(newest) ELSE Limit)
        /\ outbox' = <<Phase("streaming")>> \o note \o Chunks(window) \o <<Done>>
        /\ owed' = Range(window)
  <2>1. PICK here : here = {r \in query.partitions \X Offsets : r[2] < Len(Log[r[1]])}
    OBVIOUS
  <2>2. PICK hits : hits = {r \in here : Entry(r[1], r[2]) = "hit"}
    OBVIOUS
  <2>3. PICK note : note = IF \E r \in here : Entry(r[1], r[2]) = "bad" THEN <<Failed>> ELSE <<>>
    OBVIOUS
  <2>4. \E newest \in NewestFirst(hits) :
          LET window == SubSeq(newest, 1, IF Len(newest) < Limit THEN Len(newest) ELSE Limit)
          IN  outbox' = <<Phase("streaming")>> \o note \o Chunks(window) \o <<Done>> /\ owed' = Range(window)
    BY <2>1, <2>2, <2>3 DEF ReadTail, Says
  <2>5. hits \in SUBSET (query.partitions \X Offsets)
    BY <2>1, <2>2
  <2>6. note \in {<<>>, <<Failed>>}
    BY <2>3
  <2> QED BY <2>4, <2>5, <2>6
<1>3. pump = "opening" /\ pump' = "closing" /\ Backward /\ UNCHANGED <<cursor, batch, cut, query>>
  BY DEF ReadTail, At, fixed
<1>4. window \in Seq(RowId)
  BY <1>1, <1>2, StreamAssumption, WindowRows
<1>5. PICK c, a, z, fs : c = Chunks(window) /\ a = <<Phase("streaming")>> /\ z = <<Done>> /\ fs = ((a \o note) \o c) \o z
  OBVIOUS
<1>6. /\ c \in Seq(Frames) /\ NoDone(c) /\ Range(window) \subseteq AllRows(c)
      /\ a \in Seq(Frames) /\ NoDone(a) /\ AllRows(a) = {}
      /\ note \in Seq(Frames) /\ NoDone(note) /\ AllRows(note) = {}
      /\ z \in Seq(Frames) /\ Ends(z) /\ z # <<>>
  <2>1. c \in Seq(Frames) /\ NoDone(c) /\ Range(window) \subseteq AllRows(c)
    BY <1>3, <1>4, <1>5, ChunksSay
  <2>2. Phase("streaming") \in Frames /\ RowsOf(Phase("streaming")) = {} /\ Phase("streaming") # Done
    BY PlainFrames
  <2>3. Plain(a) /\ NoDone(a)
    BY <1>5, <2>2, PlainOne, DoneFew
  <2>4. Failed \in Frames /\ RowsOf(Failed) = {} /\ Failed # Done
    BY PlainFrames
  <2>5. Plain(<<Failed>>) /\ NoDone(<<Failed>>)
    BY <2>4, PlainOne, DoneFew
  <2>6. Plain(note) /\ NoDone(note)
    BY <1>2, <2>5, PlainNone, DoneFew
  <2>7. Plain(z) /\ Ends(z)
    BY <1>5, <2>4, TwoFrames
  <2> QED BY <2>1, <2>3, <2>6, <2>7, DoneFew DEF Plain
<1>7. PICK u, v : u = a \o note /\ v = u \o c
  OBVIOUS
<1>8. u \in Seq(Frames) /\ NoDone(u)
  BY <1>6, <1>7, ConcatProperties, DoneConcat
<1>9. v \in Seq(Frames) /\ NoDone(v) /\ AllRows(v) = AllRows(u) \cup AllRows(c)
  <2>1. v \in Seq(Frames)
    BY <1>6, <1>7, <1>8, ConcatProperties
  <2>2. NoDone(v)
    BY <1>6, <1>7, <1>8, DoneConcat
  <2>3. AllRows(v) = AllRows(u) \cup AllRows(c)
    <3>1. AllRows(u \o c) = AllRows(u) \cup AllRows(c)
      <4>1. u \in Seq(Frames) /\ c \in Seq(Frames)
        BY <1>6, <1>8
      <4> QED BY <4>1, RowsConcat
    <3> QED BY <1>7, <3>1
  <2> QED BY <2>1, <2>2, <2>3
<1>10. fs = v \o z
  BY <1>5, <1>7
<1>11. fs \in Seq(Frames) /\ Ends(fs) /\ AllRows(fs) = AllRows(v) \cup AllRows(z)
  BY <1>6, <1>9, <1>10, ConcatProperties, DoneConcat, RowsConcat
<1>12. Range(window) \subseteq AllRows(fs)
  BY <1>6, <1>9, <1>11
<1>13. Speaks(fs) /\ Goes(fs)
  BY <1>2, <1>3, <1>5, <1>11 DEF Speaks, Goes, ReadTail, At, Waiting
<1>14. ~Forward /\ ~Live /\ Bounded
  BY <1>3 DEF Forward, Live, Backward, Bounded
<1>15. TypeInv'
  <2>1. owed' \subseteq RowId
    BY <1>2, <1>4, RangeOfSeq
  <2>2. batch' \in Batches /\ cursor' \in [Partitions -> Nat]
    BY <1>1, <1>3 DEF TypeInv
  <2> QED BY <1>1, <1>13, <2>1, <2>2, SpeaksType
<1>16. EndInv' /\ WireInv' /\ StoreInv'
  BY <1>1, <1>13, SpeaksEnd, SpeaksWire
<1>17. CoverInv'
  <2>1. owed' \subseteq Sent \cup AllRows(fs) \cup Range(batch')
    BY <1>2, <1>12
  <2> QED BY <1>1, <1>13, <1>14, <2>1, SpeaksCover
<1>18. LiveInv'
  BY <1>1, <1>13, <1>14, SpeaksLive
<1>19. ScanInv'
  <2>1. batch = <<>> /\ Range(batch') = {}
    BY <1>1, <1>3 DEF ScanInv, Range
  <2>2. Bounded'
    BY <1>3, <1>14, QueryStays
  <2> QED BY <1>3, <2>1, <2>2 DEF ScanInv, Closing, Range
<1> QED BY <1>15, <1>16, <1>17, <1>18, <1>19 DEF StreamInv

-----------------------------------------------------------------------------
(***************************************************************************)
(* The ring, the writer and the reader                                     *)
(***************************************************************************)

\* CoverInv after a step that leaves the query alone, said without primed operators.
LEMMA CoverNext ==
  ASSUME query' = query,
         Bounded /\ shown' = 0 /\ dropped' = 0 => owed' \subseteq Sent' \cup Range(batch'),
         Forward /\ shown' = 0 =>
           /\ OnScreen' \subseteq Due
           /\ \A r \in OnScreen' : Earlier(r) \subseteq OnScreen'
           /\ ~Noticed' => \A r \in AllRows(wire') : Earlier(r) \subseteq Written'
           /\ dropped' = 0 => Covers(Written', Coming')
  PROVE  CoverInv'
<1>1. /\ Due' = Due /\ (Forward' <=> Forward) /\ (Bounded' <=> Bounded)
      /\ \A r : Earlier(r)' = Earlier(r)
  BY QueryStays
<1>2. Covers(Written, Coming)' <=> Covers(Written', Coming')
  BY CoversStays
<1>3. AllRows(wire)' = AllRows(wire') /\ Range(batch)' = Range(batch')
  BY DEF AllRows, Range
<1> QED BY <1>1, <1>2, <1>3 DEF CoverInv

\* LiveInv after such a step.
LEMMA LiveNext ==
  ASSUME query' = query,
         Live =>
           /\ \A r \in Sent' : r[2] < cursor'[r[1]]
           /\ \A s \in Range(batch'), r \in Sent' : r[1] = s[1] => r[2] < s[2]
           /\ Ascends(OnScreen', wire') /\ Ascends(Written', Coming')
  PROVE  LiveInv'
<1> SUFFICES ASSUME Live'
             PROVE  /\ \A r \in Sent' : r[2] < cursor'[r[1]]
                    /\ \A s \in Range(batch'), r \in Sent' : r[1] = s[1] => r[2] < s[2]
                    /\ Ascends(OnScreen', wire') /\ Ascends(Written', Coming')
  BY DEF LiveInv, Ascends, UpTo, Range
<1>1. Live
  BY QueryStays
<1> QED BY <1>1

\* The frames to come, less one.
LEMMA FallsKeeps ==
  ASSUME TypeInv, NEW x, NEW t, Falls(x, t)
  PROVE  /\ AllRows(Coming') \subseteq AllRows(Coming)
         /\ \A base : Ascends(base, Coming) => Ascends(base, Coming')
         /\ NoDone(Coming) => NoDone(Coming')
         /\ Ends(Coming) => Ends(Coming')
         /\ Coming # <<>> /\ Coming' # <<>> /\ Coming' \in Seq(Frames)
<1>1. PICK w, e, u : w = writing /\ e = <<x>> /\ u = e \o t
  OBVIOUS
<1>2. /\ w \in Seq(Frames) /\ e \in Seq(Frames) /\ t \in Seq(Frames) /\ t # <<>> /\ u \in Seq(Frames)
      /\ Coming = w \o u /\ Coming' = w \o t
  <2>1. w \in Seq(Frames) /\ t \in Seq(Frames) /\ t # <<>> /\ x \in Frames
    BY <1>1 DEF TypeInv, Falls
  <2>2. e \in Seq(Frames)
    BY <1>1, <2>1
  <2>3. u \in Seq(Frames)
    BY <1>1, <2>1, <2>2, ConcatProperties
  <2>4. Coming = w \o u /\ Coming' = w \o t
    BY <1>1 DEF Falls
  <2> QED BY <2>1, <2>2, <2>3, <2>4
<1>3. u # <<>>
  BY <1>1, <1>2, ConcatEqualIffEmpty
<1>4. AllRows(w \o u) = AllRows(w) \cup AllRows(u)
  BY <1>2, RowsConcat
<1>5. AllRows(w \o t) = AllRows(w) \cup AllRows(t)
  BY <1>2, RowsConcat
<1>6. AllRows(u) = AllRows(e) \cup AllRows(t)
  <2>1. e \in Seq(Frames) /\ t \in Seq(Frames)
    BY <1>2
  <2>2. AllRows(e \o t) = AllRows(e) \cup AllRows(t)
    BY <2>1, RowsConcat
  <2> QED BY <1>1, <2>2
<1>7. ASSUME NEW base, Ascends(base, w \o u) PROVE Ascends(base, w \o t)
  <2>1. Ascends(base, w) /\ Ascends(base \cup AllRows(w), u)
    BY <1>2, <1>7, AscendsConcat
  <2>2. Ascends((base \cup AllRows(w)) \cup AllRows(e), t)
    BY <1>1, <1>2, <2>1, AscendsConcat
  <2>3. Ascends(base \cup AllRows(w), t)
    BY <2>2, AscendsLess
  <2> QED BY <1>2, <2>1, <2>3, AscendsConcat
<1>8. NoDone(w \o u) => NoDone(w) /\ NoDone(u)
  BY <1>2, DoneConcat
<1>9. NoDone(u) => NoDone(t)
  BY <1>1, <1>2, DoneConcat
<1>10. Ends(w \o u) => NoDone(w) /\ Ends(u)
  BY <1>2, <1>3, DoneConcat
<1>11. Ends(u) => Ends(t)
  BY <1>1, <1>2, DoneConcat
<1>12. /\ NoDone(w) /\ NoDone(t) => NoDone(w \o t)
       /\ NoDone(w) /\ Ends(t) => Ends(w \o t)
  BY <1>2, DoneConcat
<1>13. w \o u # <<>> /\ w \o t # <<>> /\ w \o t \in Seq(Frames)
  BY <1>2, <1>3, ConcatEqualIffEmpty, ConcatProperties
<1> QED BY <1>2, <1>4, <1>5, <1>6, <1>7, <1>8, <1>9, <1>10, <1>11, <1>12, <1>13

\* What is still to be read ends as what is to come does.
LEMMA PendingEnds ==
  ASSUME NEW w \in Seq(Frames), NEW c \in Seq(Frames)
  PROVE  /\ NoDone(w \o c) <=> NoDone(w) /\ NoDone(c)
         /\ c # <<>> => (Ends(w \o c) <=> NoDone(w) /\ Ends(c))
         /\ c = <<>> => w \o c = w
         /\ w = <<>> => w \o c = c
         /\ w \o c = <<>> <=> w = <<>> /\ c = <<>>
BY DoneConcat, ConcatEmptySeq, ConcatEqualIffEmpty

\* A push, which may drop the oldest frame and counts it.
LEMMA PushesStep == ASSUME StreamInv, Pushes PROVE StreamInv'
<1>1. TypeInv /\ EndInv /\ WireInv /\ ScanInv /\ CoverInv /\ LiveInv /\ StoreInv
  BY DEF StreamInv
<1>2. /\ query' = query /\ resume' = resume /\ pump' = pump /\ cursor' = cursor /\ batch' = batch
      /\ cut' = cut /\ owed' = owed
      /\ writing' = writing /\ told' = told /\ wire' = wire
      /\ source' = source /\ lastId' = lastId /\ rows' = rows /\ shown' = shown /\ phase' = phase
      /\ ~senderGone /\ senderGone' = senderGone /\ receiverGone' = receiverGone /\ outbox # <<>>
  BY DEF Pushes, Send, fixed, writerVars, readerVars
<1>3. source = "open"
  <2>1. Pending # <<>>
    <3>1. outbox \in Seq(Frames) /\ writing \o queue \in Seq(Frames)
      BY <1>1, ConcatProperties DEF TypeInv
    <3>2. Coming # <<>>
      BY <1>2, <3>1, ConcatEqualIffEmpty DEF Coming
    <3>3. wire \in Seq(Frames) /\ Coming \in Seq(Frames)
      BY <1>1, RowsTyped DEF TypeInv
    <3> QED BY <3>2, <3>3, PendingEnds DEF Pending
  <2> QED BY <1>1, <2>1 DEF EndInv
<1>4. /\ queue' \in Seq(Frames) /\ Len(queue') <= Capacity /\ outbox' \in Seq(Frames)
      /\ \/ dropped' = dropped /\ Coming' = Coming
         \/ dropped' = dropped + 1 /\ \E x, t : Falls(x, t)
      /\ Coming' # <<>>
  BY <1>1, <1>2, <1>3, PushKeepsOrCounts DEF Pushes
<1>5. /\ AllRows(Coming') \subseteq AllRows(Coming)
      /\ \A base : Ascends(base, Coming) => Ascends(base, Coming')
      /\ NoDone(Coming) => NoDone(Coming')
      /\ Ends(Coming) => Ends(Coming')
      /\ Coming # <<>> /\ Coming' \in Seq(Frames) /\ Coming \in Seq(Frames)
  <2>1. Coming \in Seq(Frames)
    BY <1>1, RowsTyped
  <2>2. CASE Coming' = Coming
    BY <1>4, <2>1, <2>2
  <2>3. CASE \E x, t : Falls(x, t)
    BY <1>1, <2>1, <2>3, FallsKeeps
  <2> QED BY <1>4, <2>2, <2>3
<1>6. /\ OnScreen' = OnScreen /\ Written' = Written /\ AllRows(wire') = AllRows(wire) /\ (Noticed' <=> Noticed)
      /\ Sent' \subseteq Sent
  <2>1. OnScreen' = OnScreen /\ Written' = Written /\ AllRows(wire') = AllRows(wire) /\ (Noticed' <=> Noticed)
    BY <1>2 DEF OnScreen, Written, AllRows, Noticed
  <2>2. AllRows(Coming)' = AllRows(Coming')
    BY DEF AllRows
  <2> QED BY <1>5, <2>1, <2>2 DEF Sent
<1>7. dropped \in Nat /\ dropped' \in Nat /\ told <= dropped' /\ told \in Nat /\ (dropped' = 0 => dropped = 0 /\ Coming' = Coming)
  <2>1. dropped \in Nat /\ told \in Nat /\ told <= dropped
    BY <1>1 DEF TypeInv
  <2> QED BY <1>4, <2>1
<1>8. TypeInv'
  <2>1. Frames' = Frames /\ Batches' = Batches
    BY <1>2, QueryStays
  <2> QED BY <1>1, <1>2, <1>4, <1>6, <1>7, <2>1 DEF TypeInv
<1>9. EndInv'
  <2>1. wire \in Seq(Frames)
    BY <1>1 DEF TypeInv
  <2>2. Pending' = wire \o Coming'
    BY <1>2 DEF Pending
  <2>3. NoDone(Pending) => NoDone(Pending')
    BY <1>5, <2>1, <2>2, PendingEnds DEF Pending
  <2>4. Ends(Pending) => Ends(Pending')
    BY <1>4, <1>5, <2>1, <2>2, PendingEnds DEF Pending
  <2>5. pump # "ended"
    BY <1>1, <1>2 DEF EndInv
  <2>6. (NoDone(Pending)' <=> NoDone(Pending')) /\ (Ends(Pending)' <=> Ends(Pending'))
    BY DEF NoDone, Ends
  <2> QED BY <1>1, <1>2, <1>3, <1>4, <2>3, <2>4, <2>5, <2>6 DEF EndInv, Closing
<1>10. WireInv' /\ StoreInv'
  <2>1. Backward' <=> Backward
    BY <1>2, QueryStays
  <2> QED BY <1>1, <1>2, <1>6, <2>1 DEF WireInv, StoreInv, IsInjective, Ascending
<1>11. ScanInv'
  <2>1. /\ Due' = Due /\ (Forward' <=> Forward) /\ (Backward' <=> Backward) /\ (Bounded' <=> Bounded)
        /\ \A p : Begin(p)' = Begin(p)
    BY <1>2, QueryStays
  <2> QED BY <1>1, <1>2, <2>1 DEF ScanInv, Closing, Range
<1>12. CoverInv'
  <2>1. Bounded /\ shown' = 0 /\ dropped' = 0 => owed' \subseteq Sent' \cup Range(batch')
    <3>1. Coming' = Coming => Sent' = Sent
      BY <1>6 DEF Sent, AllRows
    <3> QED BY <1>1, <1>2, <1>7, <3>1 DEF CoverInv
  <2>2. Forward /\ shown' = 0 =>
           /\ OnScreen' \subseteq Due
           /\ \A r \in OnScreen' : Earlier(r) \subseteq OnScreen'
           /\ ~Noticed' => \A r \in AllRows(wire') : Earlier(r) \subseteq Written'
           /\ dropped' = 0 => Covers(Written', Coming')
    BY <1>1, <1>2, <1>6, <1>7 DEF CoverInv
  <2> QED BY <1>2, <2>1, <2>2, CoverNext
<1>13. LiveInv'
  <2>1. Live =>
           /\ \A r \in Sent' : r[2] < cursor'[r[1]]
           /\ \A s \in Range(batch'), r \in Sent' : r[1] = s[1] => r[2] < s[2]
           /\ Ascends(OnScreen', wire') /\ Ascends(Written', Coming')
    BY <1>1, <1>2, <1>5, <1>6 DEF LiveInv
  <2> QED BY <1>2, <2>1, LiveNext
<1> QED BY <1>8, <1>9, <1>10, <1>11, <1>12, <1>13 DEF StreamInv

\* The task ends once everything is pushed.
LEMMA CloseStep == ASSUME StreamInv, Close PROVE StreamInv'
<1>1. TypeInv /\ EndInv /\ WireInv /\ ScanInv /\ CoverInv /\ LiveInv /\ StoreInv
  BY DEF StreamInv
<1>2. /\ query' = query /\ resume' = resume /\ cursor' = cursor /\ batch' = batch
      /\ cut' = cut /\ owed' = owed /\ queue' = queue /\ dropped' = dropped /\ outbox' = outbox
      /\ writing' = writing /\ told' = told /\ wire' = wire
      /\ source' = source /\ lastId' = lastId /\ rows' = rows /\ shown' = shown /\ phase' = phase
      /\ senderGone' = TRUE /\ receiverGone' = receiverGone /\ outbox = <<>>
      /\ pump = "closing" /\ pump' = "ended"
  BY DEF Close, At, LeaveSender, fixed, writerVars, readerVars
<1>3. /\ OnScreen' = OnScreen /\ Written' = Written /\ Sent' = Sent /\ Coming' = Coming /\ Pending' = Pending
      /\ AllRows(wire') = AllRows(wire) /\ (Noticed' <=> Noticed)
  BY <1>2 DEF OnScreen, Written, Sent, AllRows, Coming, Pending, Noticed
<1>4. Frames' = Frames /\ Batches' = Batches /\ (Bounded' <=> Bounded) /\ (Backward' <=> Backward)
  BY <1>2, QueryStays
<1>5. TypeInv'
  BY <1>1, <1>2, <1>3, <1>4 DEF TypeInv
<1>6. EndInv'
  <2>1. (NoDone(Pending)' <=> NoDone(Pending)) /\ (Ends(Pending)' <=> Ends(Pending))
    BY <1>3 DEF NoDone, Ends
  <2> QED BY <1>1, <1>2, <1>3, <2>1 DEF EndInv, Closing
<1>7. WireInv' /\ StoreInv'
  BY <1>1, <1>2, <1>3, <1>4 DEF WireInv, StoreInv, IsInjective, Ascending
<1>8. ScanInv'
  BY <1>1, <1>2, <1>4 DEF ScanInv, Closing, Range
<1>9. CoverInv'
  BY <1>1, <1>2, <1>3, CoverNext DEF CoverInv
<1>10. LiveInv'
  BY <1>1, <1>2, <1>3, LiveNext DEF LiveInv
<1> QED BY <1>5, <1>6, <1>7, <1>8, <1>9, <1>10 DEF StreamInv

\* The writer takes a frame from the ring.
LEMMA TakeFrameStep == ASSUME StreamInv, TakeFrame PROVE StreamInv'
<1>1. TypeInv /\ EndInv /\ WireInv /\ ScanInv /\ CoverInv /\ LiveInv /\ StoreInv
  BY DEF StreamInv
<1>2. /\ query' = query /\ resume' = resume /\ cursor' = cursor /\ batch' = batch /\ pump' = pump
      /\ cut' = cut /\ owed' = owed /\ dropped' = dropped /\ outbox' = outbox
      /\ told' = told /\ wire' = wire /\ wire = <<>>
      /\ source' = source /\ lastId' = lastId /\ rows' = rows /\ shown' = shown /\ phase' = phase
      /\ senderGone' = senderGone /\ receiverGone' = receiverGone
  BY DEF TakeFrame, Take, fixed, pumpVars, readerVars
<1>3. /\ Coming' = Coming
      /\ writing' \in Seq(Frames) /\ Len(writing') = 1
      /\ queue' \in Seq(Frames) /\ Len(queue') <= Capacity
  BY <1>1, TakeKeeps
<1>4. /\ OnScreen' = OnScreen /\ Written' = Written /\ Sent' = Sent /\ Pending' = Pending
      /\ AllRows(wire') = AllRows(wire) /\ (Noticed' <=> Noticed)
  BY <1>2, <1>3 DEF OnScreen, Written, Sent, AllRows, Pending, Noticed
<1>5. /\ Frames' = Frames /\ Batches' = Batches /\ Due' = Due
      /\ (Bounded' <=> Bounded) /\ (Backward' <=> Backward) /\ (Forward' <=> Forward)
      /\ \A p : Begin(p)' = Begin(p)
  BY <1>2, QueryStays
<1>6. TypeInv'
  BY <1>1, <1>2, <1>3, <1>4, <1>5 DEF TypeInv
<1>7. EndInv'
  <2>1. (NoDone(Pending)' <=> NoDone(Pending)) /\ (Ends(Pending)' <=> Ends(Pending))
    BY <1>4 DEF NoDone, Ends
  <2> QED BY <1>1, <1>2, <1>3, <1>4, <2>1 DEF EndInv, Closing
<1>8. WireInv' /\ StoreInv'
  BY <1>1, <1>2, <1>4, <1>5 DEF WireInv, StoreInv, IsInjective, Ascending
<1>9. ScanInv'
  BY <1>1, <1>2, <1>5 DEF ScanInv, Closing, Range
<1>10. CoverInv'
  BY <1>1, <1>2, <1>3, <1>4, CoverNext DEF CoverInv
<1>11. LiveInv'
  BY <1>1, <1>2, <1>3, <1>4, LiveNext DEF LiveInv
<1> QED BY <1>6, <1>7, <1>8, <1>9, <1>10, <1>11 DEF StreamInv

\* The writer says the drops first, if they have grown.
LEMMA DropsSays ==
  ASSUME TypeInv
  PROVE  /\ \/ DropsSaid = <<>> /\ dropped = told
            \/ \E f \in Frames : DropsSaid = <<f>> /\ f.kind = "dropped" /\ RowsOf(f) = {} /\ f # Done /\ dropped > 0
         /\ DropsSaid \in Seq(Frames)
<1>1. dropped \in Nat /\ told \in Nat /\ told <= dropped
  BY DEF TypeInv
<1>2. CASE dropped = told
  BY <1>2, EmptySeq DEF DropsSaid
<1>3. CASE dropped # told
  <2>1. PICK f : f = Frame("dropped", dropped)
    OBVIOUS
  <2>2. dropped \in Nat \ {0} /\ dropped > 0
    BY <1>1, <1>3
  <2>3. f \in Frames /\ RowsOf(f) = {} /\ f # Done
    BY <2>1, <2>2, PlainFrames
  <2>4. DropsSaid = <<f>> /\ f.kind = "dropped"
    BY <1>3, <2>1 DEF DropsSaid, Frame
  <2>5. <<f>> \in Seq(Frames)
    BY <2>3
  <2> QED BY <2>2, <2>3, <2>4, <2>5
<1> QED BY <1>2, <1>3

\* The writer writes the frame, and before it what was dropped.
LEMMA WriteFrameStep == ASSUME StreamInv, WriteFrame PROVE StreamInv'
<1>1. TypeInv /\ EndInv /\ WireInv /\ ScanInv /\ CoverInv /\ LiveInv /\ StoreInv
  BY DEF StreamInv
<1>2. /\ query' = query /\ resume' = resume /\ cursor' = cursor /\ batch' = batch /\ pump' = pump
      /\ cut' = cut /\ owed' = owed /\ dropped' = dropped /\ outbox' = outbox /\ queue' = queue
      /\ told' = dropped /\ writing' = <<>>
      /\ source' = source /\ lastId' = lastId /\ rows' = rows /\ shown' = shown /\ phase' = phase
      /\ senderGone' = senderGone /\ receiverGone' = receiverGone
  BY DEF WriteFrame, slots, fixed, pumpVars, readerVars
<1>3. PICK f \in Frames, rest \in Seq(Frames) :
        /\ writing = <<f>> /\ wire = <<>> /\ wire' = DropsSaid \o <<f>>
        /\ Coming = <<f>> \o rest /\ Coming' = rest
  BY <1>1, WriteFirst
<1>4. PICK d, e : d = DropsSaid /\ e = <<f>>
  OBVIOUS
<1>22. wire' = d \o e /\ Coming = e \o rest
  BY <1>3, <1>4
<1>23. e \in Seq(Frames) /\ e # <<>> /\ Len(e) = 1 /\ e[1] = f /\ AllRows(e) = RowsOf(f)
  BY <1>4, FewRows
<1>5. /\ d \in Seq(Frames) /\ AllRows(d) = {} /\ NoDone(d)
      /\ \/ d = <<>> /\ dropped = told
         \/ Len(d) = 1 /\ d[1].kind = "dropped" /\ dropped > 0
  <2>1. \/ d = <<>> /\ dropped = told
        \/ \E g \in Frames : d = <<g>> /\ g.kind = "dropped" /\ RowsOf(g) = {} /\ g # Done /\ dropped > 0
    BY <1>1, <1>4, DropsSays
  <2>2. ASSUME d = <<>>, dropped = told
        PROVE  d \in Seq(Frames) /\ AllRows(d) = {} /\ NoDone(d)
    BY <2>2, FewRows, DoneFew, EmptySeq
  <2>3. ASSUME NEW g \in Frames, d = <<g>>, g.kind = "dropped", RowsOf(g) = {}, g # Done, dropped > 0
        PROVE  d \in Seq(Frames) /\ AllRows(d) = {} /\ NoDone(d) /\ Len(d) = 1 /\ d[1].kind = "dropped"
    BY <2>3, FewRows, DoneFew
  <2> QED BY <2>1, <2>2, <2>3
<1>6. AllRows(d \o e) = AllRows(d) \cup AllRows(e)
  <2>1. d \in Seq(Frames) /\ e \in Seq(Frames)
    BY <1>5, <1>23
  <2> QED BY <2>1, RowsConcat
<1>7. AllRows(wire') = RowsOf(f)
  BY <1>5, <1>22, <1>23, <1>6
<1>8. AllRows(Coming) = RowsOf(f) \cup AllRows(rest)
  <2>1. AllRows(e \o rest) = AllRows(e) \cup AllRows(rest)
    BY <1>5, <1>22, <1>23, RowsConcat
  <2> QED BY <1>5, <1>22, <1>23, <2>1
<1>9. AllRows(wire) = {}
  BY <1>3, FewRows
<1>10. /\ OnScreen' = OnScreen /\ Written = OnScreen
       /\ Written' = OnScreen \cup RowsOf(f)
       /\ Sent' = Sent
  <2>1. OnScreen' = OnScreen
    BY <1>2 DEF OnScreen
  <2>2. AllRows(wire)' = AllRows(wire') /\ AllRows(Coming)' = AllRows(rest)
    BY <1>3 DEF AllRows
  <2> QED BY <1>7, <1>8, <1>9, <2>1, <2>2 DEF Written, Sent
<1>11. d = <<>> => wire' = e
  BY <1>5, <1>22, <1>23, ConcatEmptySeq
<1>12. /\ wire' \in Seq(Frames) /\ wire' # <<>> /\ Len(wire') <= 2
       /\ Len(wire') = 2 => Noticed'
       /\ d # <<>> => Noticed'
  <2>1. CASE d = <<>>
    <3>1. wire' = e
      BY <1>11, <2>1
    <3>2. wire' \in Seq(Frames) /\ wire' # <<>> /\ Len(wire') = 1
      BY <1>5, <1>22, <1>23, <3>1
    <3> QED BY <2>1, <3>2
  <2>2. CASE Len(d) = 1 /\ d[1].kind = "dropped"
    <3>0. d \in Seq(Frames) /\ e \in Seq(Frames)
      BY <1>5, <1>22, <1>23
    <3>1. /\ d \o e \in Seq(Frames) /\ Len(d \o e) = Len(d) + Len(e)
          /\ \A i \in 1 .. Len(d) : (d \o e)[i] = d[i]
      BY <3>0, ConcatAt
    <3>2. 1 \in 1 .. Len(d)
      BY <2>2
    <3>3. wire'[1] = d[1] /\ Len(wire') = 2 /\ wire' \in Seq(Frames)
      BY <1>5, <1>22, <1>23, <2>2, <3>1, <3>2
    <3> QED BY <2>2, <3>3 DEF Noticed
  <2> QED BY <1>5, <1>22, <1>23, <2>1, <2>2
<1>13. /\ Frames' = Frames /\ Batches' = Batches /\ Due' = Due
       /\ (Bounded' <=> Bounded) /\ (Backward' <=> Backward) /\ (Forward' <=> Forward)
       /\ \A p : Begin(p)' = Begin(p)
  BY <1>2, QueryStays
<1>14. dropped \in Nat /\ told \in Nat /\ ~Noticed
  BY <1>1, <1>3 DEF TypeInv, Noticed
<1>15. TypeInv'
  <2>1. writing' \in Seq(Frames) /\ Len(writing') <= 1
    BY <1>2, EmptySeq
  <2> QED BY <1>1, <1>2, <1>10, <1>12, <1>13, <1>14, <2>1 DEF TypeInv
<1>16. EndInv'
  <2>1. Pending = e \o rest
    <3>1. wire = <<>> /\ wire \in Seq(Frames) /\ Coming \in Seq(Frames)
      BY <1>1, <1>3, RowsTyped DEF TypeInv
    <3>2. wire \o Coming = Coming
      BY <3>1, PendingEnds
    <3> QED BY <1>22, <3>2 DEF Pending
  <2>2. Pending' = Cat(d, Cat(e, rest))
    <3>1. Pending' = Cat(Cat(d, e), rest)
      BY <1>3, <1>5, <1>22, <1>23 DEF Pending, Cat
    <3> QED BY <1>5, <1>22, <1>23, <3>1, Associative
  <2>3. Pending' = d \o Pending /\ Pending \in Seq(Frames) /\ Pending # <<>>
    <3>1. e \o rest \in Seq(Frames) /\ e \o rest # <<>>
      BY <1>5, <1>22, <1>23, ConcatProperties, ConcatEqualIffEmpty
    <3> QED BY <2>1, <2>2, <3>1 DEF Cat
  <2>4. (NoDone(Pending) => NoDone(Pending')) /\ (Ends(Pending) => Ends(Pending'))
    BY <1>5, <1>22, <1>23, <2>3, PendingEnds
  <2>5. (NoDone(Pending)' <=> NoDone(Pending')) /\ (Ends(Pending)' <=> Ends(Pending'))
    BY DEF NoDone, Ends
  <2>6. source # "closed"
    BY <1>1, <2>3 DEF EndInv
  <2> QED BY <1>1, <1>2, <2>4, <2>5, <2>6 DEF EndInv, Closing
<1>17. WireInv'
  <2>1. told' > 0 => shown' > 0 \/ Noticed'
    <3>1. CASE d = <<>> /\ dropped = told
      BY <1>1, <1>2, <1>14, <3>1 DEF WireInv
    <3>2. CASE d # <<>>
      BY <1>12, <3>2
    <3> QED BY <1>5, <1>22, <1>23, <3>1, <3>2
  <2> QED BY <1>2, <1>12, <2>1 DEF WireInv
<1>18. StoreInv'
  BY <1>1, <1>2, <1>13 DEF StoreInv, IsInjective, Ascending
<1>19. ScanInv'
  BY <1>1, <1>2, <1>13 DEF ScanInv, Closing, Range
<1>20. CoverInv'
  <2>1. Bounded /\ shown' = 0 /\ dropped' = 0 => owed' \subseteq Sent' \cup Range(batch')
    BY <1>1, <1>2, <1>10 DEF CoverInv
  <2>2. ASSUME Forward, shown = 0, dropped = 0
        PROVE  /\ \A r \in RowsOf(f) : Earlier(r) \subseteq OnScreen \cup RowsOf(f)
               /\ Covers(OnScreen \cup RowsOf(f), rest)
    <3>1. Covers(OnScreen, e \o rest)
      BY <1>1, <1>5, <1>22, <1>23, <1>10, <2>2 DEF CoverInv
    <3>2. Covers(OnScreen, e) /\ Covers(OnScreen \cup AllRows(e), rest)
      BY <1>5, <1>22, <1>23, <3>1, CoversConcat
    <3> QED BY <1>4, <1>5, <1>22, <1>23, <3>2, CoversFew
  <2>3. Noticed' \/ dropped = 0 \/ shown > 0
    <3>1. CASE d = <<>> /\ dropped = told
      BY <1>1, <1>14, <3>1 DEF WireInv
    <3>2. CASE d # <<>>
      BY <1>12, <3>2
    <3> QED BY <1>5, <1>22, <1>23, <3>1, <3>2
  <2>4. shown \in Nat
    BY <1>1 DEF TypeInv
  <2>5. ASSUME Forward, shown' = 0
        PROVE  /\ OnScreen' \subseteq Due
               /\ \A r \in OnScreen' : Earlier(r) \subseteq OnScreen'
               /\ ~Noticed' => \A r \in AllRows(wire') : Earlier(r) \subseteq Written'
               /\ dropped' = 0 => Covers(Written', Coming')
    <3>1. shown = 0 /\ ~(shown > 0)
      BY <1>2, <2>5
    <3>2. ~Noticed' => \A r \in AllRows(wire') : Earlier(r) \subseteq Written'
      BY <1>7, <1>10, <2>2, <2>3, <2>5, <3>1
    <3>3. dropped' = 0 => Covers(Written', Coming')
      BY <1>2, <1>3, <1>10, <2>2, <2>5, <3>1
    <3> QED BY <1>1, <1>10, <2>5, <3>1, <3>2, <3>3 DEF CoverInv
  <2> QED BY <1>2, <2>1, <2>5, CoverNext
<1>21. LiveInv'
  <2>1. ASSUME Live PROVE Ascends(OnScreen', wire') /\ Ascends(Written', Coming')
    <3>1. Ascends(OnScreen, e \o rest)
      BY <1>1, <1>5, <1>22, <1>23, <1>10, <2>1 DEF LiveInv
    <3>2. Ascends(OnScreen, e) /\ Ascends(OnScreen \cup AllRows(e), rest)
      BY <1>5, <1>22, <1>23, <3>1, AscendsConcat
    <3>3. Ascends(OnScreen, d)
      <4>1. Plain(d)
        BY <1>5, <1>22, <1>23 DEF Plain
      <4> QED BY <4>1, PlainSays
    <3>4. Ascends(OnScreen, d \o e)
      <4>1. Ascends(OnScreen \cup AllRows(d), e)
        BY <1>5, <1>22, <1>23, <3>2
      <4> QED BY <1>5, <1>22, <1>23, <3>3, <4>1, AscendsConcat
    <3> QED BY <1>3, <1>5, <1>22, <1>23, <1>10, <3>2, <3>4
  <2> QED BY <1>1, <1>2, <1>10, <2>1, LiveNext DEF LiveInv
<1> QED BY <1>15, <1>16, <1>17, <1>18, <1>19, <1>20, <1>21 DEF StreamInv

\* What the reader does with an event.
LEMMA ReadFirst ==
  ASSUME TypeInv, ReadEvent
  PROVE  \E h \in Frames, rest \in Seq(Frames) :
           /\ wire = <<h>> \o rest /\ wire' = rest /\ h = wire[1]
           /\ lastId' = IF EventId(h) # NoId THEN EventId(h) ELSE lastId
           /\ rows' = IF h.kind = "messages" THEN Stored(rows, h.body) ELSE rows
           /\ shown' = IF h.kind = "dropped" THEN h.body ELSE shown
           /\ phase' = IF h.kind = "phase" THEN h.body ELSE phase
           /\ h = Done => source' = "closed" /\ LeaveReceiver
           /\ h # Done => source' = source /\ slots' = slots
<1>1. wire \in Seq(Frames) /\ wire # <<>>
  BY DEF TypeInv, ReadEvent
<1>2. PICK h, rest : h = Head(wire) /\ rest = Tail(wire)
  OBVIOUS
<1>3. h \in Frames /\ rest \in Seq(Frames) /\ wire = <<h>> \o rest /\ h = wire[1]
  BY <1>1, <1>2, HeadThenTail
<1>4. wire' = rest
  BY <1>2 DEF ReadEvent
<1>5. /\ lastId' = IF EventId(h) # NoId THEN EventId(h) ELSE lastId
      /\ rows' = IF h.kind = "messages" THEN Stored(rows, h.body) ELSE rows
      /\ shown' = IF h.kind = "dropped" THEN h.body ELSE shown
      /\ phase' = IF h.kind = "phase" THEN h.body ELSE phase
      /\ h = Done => source' = "closed" /\ LeaveReceiver
      /\ h # Done => source' = source /\ slots' = slots
  BY <1>2 DEF ReadEvent
<1> QED BY <1>3, <1>4, <1>5

\* The last id an event carries is of one of its rows.
LEMMA EventIdOf ==
  ASSUME NEW h \in Frames
  PROVE  EventId(h) = NoId \/ EventId(h) \in RowsOf(h)
<1>1. CASE h.kind # "messages"
  BY <1>1 DEF EventId
<1>2. CASE h.kind = "messages"
  <2>1. PICK b : b = h.body
    OBVIOUS
  <2>2. b \in Seq(RowId) /\ b # <<>> /\ RowsOf(h) = Range(b)
    BY <1>2, <2>1, FrameSays DEF Batches
  <2>3. Len(b) \in 1 .. Len(b)
    BY <2>2, EmptySeq
  <2>4. b[Len(b)] \in Range(b)
    BY <2>2, <2>3 DEF Range
  <2>5. EventId(h) = b[Len(b)]
    BY <1>2, <2>1 DEF EventId, Last
  <2> QED BY <2>2, <2>4, <2>5
<1> QED BY <1>1, <1>2

\* The store takes an event's rows, and keeps its order.
LEMMA StoreTakes ==
  ASSUME TypeInv, StoreInv, CoverInv, LiveInv, NEW h \in Frames, NEW rest \in Seq(Frames),
         wire = <<h>> \o rest, h = wire[1],
         rows' = IF h.kind = "messages" THEN Stored(rows, h.body) ELSE rows
  PROVE  /\ rows' \in Seq(RowId) /\ OnScreen' = OnScreen \cup RowsOf(h) /\ IsInjective(rows')
         /\ ~Backward /\ shown = 0 /\ h.kind # "dropped" => Ascending(rows')
<1>1. rows \in Seq(RowId) /\ query \in Queries
  BY DEF TypeInv
<1>2. CASE h.kind # "messages"
  <2>1. rows' = rows /\ RowsOf(h) = {}
    BY <1>2, FrameSays
  <2> QED BY <1>1, <2>1 DEF OnScreen, StoreInv
<1>3. CASE h.kind = "messages"
  <2>1. PICK b : b = h.body
    OBVIOUS
  <2>2. b \in Seq(RowId) /\ RowsOf(h) = Range(b) /\ (~Backward => Ascending(b))
    BY <1>3, <2>1, FrameSays DEF Batches
  <2>3. rows' = Stored(rows, b)
    BY <1>3, <2>1
  <2>4. /\ Stored(rows, b) \in Seq(RowId)
        /\ Range(Stored(rows, b)) = Range(rows) \cup Range(b)
        /\ IsInjective(rows) => IsInjective(Stored(rows, b))
        /\ Ascending(rows) /\ Ascending(b)
           /\ (\A r \in Range(rows), s \in Range(b) : s \notin Range(rows) /\ r[1] = s[1] => r[2] < s[2])
           => Ascending(Stored(rows, b))
    BY <1>1, <2>2, StoredRows
  <2>5. rows' \in Seq(RowId) /\ IsInjective(rows')
    BY <2>3, <2>4 DEF StoreInv
  <2>6. OnScreen' = OnScreen \cup RowsOf(h)
    BY <2>2, <2>3, <2>4 DEF OnScreen
  <2>7. ASSUME ~Backward, shown = 0, h.kind # "dropped" PROVE Ascending(rows')
    <3>1. Ascending(rows) /\ Ascending(b)
      BY <2>2, <2>7 DEF StoreInv
    <3>2. ASSUME NEW r \in OnScreen, NEW s \in RowsOf(h), s \notin OnScreen, r[1] = s[1] PROVE r[2] < s[2]
      <4>1. r \in RowId /\ s \in RowId
        BY RowsTyped, FrameSays
      <4>2. r[2] \in Nat /\ s[2] \in Nat /\ r = <<r[1], r[2]>> /\ s = <<s[1], s[2]>>
        BY <4>1 DEF RowId
      <4>3. r[2] # s[2]
        BY <3>2, <4>2
      <4>4. CASE Live
        <5>1. Ascends(OnScreen, <<h>> \o rest)
          BY <4>4 DEF LiveInv
        <5>2. <<h>> \in Seq(Frames) /\ rest \in Seq(Frames)
          OBVIOUS
        <5>3. Ascends(OnScreen, <<h>>)
          BY <5>1, <5>2, AscendsConcat
        <5> QED BY <3>2, <5>3, AscendsFew
      <4>5. CASE Forward
        <5>1. /\ OnScreen \subseteq Due
              /\ ~Noticed => \A x \in AllRows(wire) : Earlier(x) \subseteq Written
          BY <2>7, <4>5 DEF CoverInv
        <5>2. ~Noticed
          BY <2>7 DEF Noticed
        <5>3. CASE s[2] < r[2]
          <6>1. RowsOf(h) \subseteq Due
            BY <4>5, FrameSays
          <6>2. s \in Earlier(r)
            BY <3>2, <5>3, <6>1 DEF Earlier, Before
          <6>3. \A x \in OnScreen : Earlier(x) \subseteq OnScreen
            BY <2>7, <4>5 DEF CoverInv
          <6> QED BY <3>2, <6>2, <6>3
        <5>4. CASE r[2] < s[2]
          BY <5>4
        <5> QED BY <4>2, <4>3, <5>3, <5>4
      <4>6. query.mode \in {"oldest", "newest", "fromOffset", "live"}
        BY <1>1, StreamAssumption
      <4> QED BY <2>7, <4>4, <4>5, <4>6 DEF Live, Forward, Backward
    <3> QED BY <2>2, <2>3, <2>4, <3>1, <3>2 DEF OnScreen
  <2> QED BY <2>5, <2>6, <2>7
<1> QED BY <1>2, <1>3

\* The reader takes one event; `done` closes it.
LEMMA ReadEventStep == ASSUME StreamInv, ReadEvent PROVE StreamInv'
<1>1. TypeInv /\ EndInv /\ WireInv /\ ScanInv /\ CoverInv /\ LiveInv /\ StoreInv
  BY DEF StreamInv
<1>2. PICK h \in Frames, rest \in Seq(Frames) :
        /\ wire = <<h>> \o rest /\ wire' = rest /\ h = wire[1]
        /\ lastId' = IF EventId(h) # NoId THEN EventId(h) ELSE lastId
        /\ rows' = IF h.kind = "messages" THEN Stored(rows, h.body) ELSE rows
        /\ shown' = IF h.kind = "dropped" THEN h.body ELSE shown
        /\ phase' = IF h.kind = "phase" THEN h.body ELSE phase
        /\ h = Done => source' = "closed" /\ LeaveReceiver
        /\ h # Done => source' = source /\ slots' = slots
  BY <1>1, ReadFirst
<1>3. /\ query' = query /\ resume' = resume /\ cursor' = cursor /\ batch' = batch /\ pump' = pump
      /\ cut' = cut /\ owed' = owed /\ outbox' = outbox /\ writing' = writing /\ told' = told
      /\ source = "open" /\ wire # <<>>
  BY DEF ReadEvent, fixed, pumpVars
<1>4. queue' = queue /\ dropped' = dropped /\ senderGone' = senderGone
  <2>1. CASE h = Done
    BY <1>2, <2>1 DEF LeaveReceiver
  <2>2. CASE h # Done
    BY <1>2, <2>2 DEF slots
  <2> QED BY <2>1, <2>2
<1>5. receiverGone' <=> source' = "closed"
  <2>1. CASE h = Done
    BY <1>2, <2>1 DEF LeaveReceiver
  <2>2. CASE h # Done
    BY <1>1, <1>2, <2>2 DEF slots, EndInv
  <2> QED BY <2>1, <2>2
<1>6. Coming' = Coming
  BY <1>3, <1>4 DEF Coming
<1>7. PICK e : e = <<h>>
  OBVIOUS
<1>8. e \in Seq(Frames) /\ e # <<>> /\ Len(e) = 1 /\ AllRows(e) = RowsOf(h)
  BY <1>7, FewRows
<1>9. wire = e \o rest
  BY <1>2, <1>7
<1>10. Len(wire) = 1 + Len(rest) /\ Len(rest) \in Nat
  <2>1. Len(e \o rest) = Len(e) + Len(rest) /\ Len(rest) \in Nat
    BY <1>8, ConcatAt
  <2> QED BY <1>8, <1>9, <2>1
<1>11. AllRows(wire) = RowsOf(h) \cup AllRows(rest)
  <2>1. AllRows(e \o rest) = AllRows(e) \cup AllRows(rest)
    BY <1>8, RowsConcat
  <2> QED BY <1>8, <1>9, <2>1
<1>12. /\ rows' \in Seq(RowId) /\ OnScreen' = OnScreen \cup RowsOf(h) /\ IsInjective(rows')
       /\ ~Backward /\ shown = 0 /\ h.kind # "dropped" => Ascending(rows')
  BY <1>1, <1>2, StoreTakes
<1>13. Written' = Written /\ Sent' = Sent
  <2>1. AllRows(wire)' = AllRows(rest) /\ AllRows(Coming)' = AllRows(Coming)
    BY <1>2, <1>6 DEF AllRows
  <2> QED BY <1>11, <1>12, <2>1 DEF Written, Sent
<1>14. /\ Frames' = Frames /\ Batches' = Batches /\ Due' = Due
       /\ (Bounded' <=> Bounded) /\ (Backward' <=> Backward) /\ (Forward' <=> Forward)
       /\ \A p : Begin(p)' = Begin(p)
  BY <1>3, QueryStays
<1>15. shown \in Nat /\ shown' \in Nat /\ (h.kind = "dropped" => shown' > 0)
       /\ (h.kind # "dropped" => shown' = shown) /\ (shown' = 0 => shown = 0 /\ h.kind # "dropped")
  <2>1. shown \in Nat
    BY <1>1 DEF TypeInv
  <2>2. h.kind = "dropped" => h.body \in Nat \ {0}
    BY FrameSays
  <2> QED BY <1>2, <2>1, <2>2
<1>16. h.kind # "dropped" => ~Noticed /\ rest = <<>>
  <2>1. ASSUME h.kind # "dropped" PROVE ~Noticed
    BY <1>2, <2>1 DEF Noticed
  <2>2. ASSUME ~Noticed PROVE rest = <<>>
    BY <1>1, <1>10, <2>2, EmptySeq DEF WireInv
  <2> QED BY <2>1, <2>2
<1>17. TypeInv'
  <2>1. lastId' = NoId \/ lastId' \in OnScreen'
    BY <1>1, <1>2, <1>12, EventIdOf DEF TypeInv
  <2>2. resume' = NoId \/ resume' \in OnScreen'
    BY <1>1, <1>3, <1>12 DEF TypeInv
  <2> QED BY <1>1, <1>2, <1>3, <1>4, <1>12, <1>14, <1>15, <2>1, <2>2 DEF TypeInv
<1>18. EndInv'
  <2>1. PICK t : t = rest \o Coming
    OBVIOUS
  <2>2. Coming \in Seq(Frames)
    BY <1>1, RowsTyped
  <2>3. t \in Seq(Frames)
    BY <2>1, <2>2, ConcatProperties
  <2>4. Pending' = t
    BY <1>2, <1>6, <2>1 DEF Pending
  <2>5. Pending = e \o t
    <3>1. Pending = Cat(Cat(e, rest), Coming)
      BY <1>9 DEF Pending, Cat
    <3>2. Cat(Cat(e, rest), Coming) = Cat(e, Cat(rest, Coming))
      BY <1>8, <2>2, Associative
    <3> QED BY <2>1, <3>1, <3>2 DEF Cat
  <2>6. /\ NoDone(e \o t) <=> NoDone(e) /\ NoDone(t)
        /\ t # <<>> => (Ends(e \o t) <=> NoDone(e) /\ Ends(t))
        /\ t = <<>> => e \o t = e
    BY <1>8, <2>3, PendingEnds
  <2>7. (NoDone(e) <=> h # Done) /\ (Ends(e) <=> h = Done)
    BY <1>7, DoneFew
  <2>8. (~Closing => NoDone(e \o t)) /\ (Closing => Ends(e \o t))
    BY <1>1, <1>3, <2>5 DEF EndInv
  <2>9. (NoDone(Pending)' <=> NoDone(t)) /\ (Ends(Pending)' <=> Ends(t))
    BY <2>4 DEF NoDone, Ends
  <2>10. Closing' <=> Closing
    BY <1>3 DEF Closing
  <2>11. CASE h = Done
    <3>1. Closing /\ t = <<>>
      BY <2>6, <2>7, <2>8, <2>11
    <3>2. source' = "closed"
      BY <1>2, <2>11
    <3> QED BY <1>1, <1>3, <1>4, <1>5, <1>6, <2>4, <2>10, <3>1, <3>2 DEF EndInv
  <2>12. CASE h # Done
    <3>1. (~Closing => NoDone(t)) /\ (Closing => Ends(t))
      BY <2>6, <2>7, <2>8, <2>12
    <3>2. source' = "open"
      BY <1>2, <1>3, <2>12
    <3>3. phase' # "done"
      BY <1>1, <1>2, <1>3, <2>12, FrameSays DEF EndInv
    <3> QED BY <1>1, <1>3, <1>4, <1>5, <1>6, <2>9, <2>10, <3>1, <3>2, <3>3 DEF EndInv
  <2> QED BY <2>11, <2>12
<1>19. WireInv'
  <2>1. told' > 0 => shown' > 0
    <3>1. ASSUME told > 0 PROVE shown' > 0
      <4>1. shown > 0 \/ Noticed
        BY <1>1, <3>1 DEF WireInv
      <4> QED BY <1>15, <1>16, <4>1
    <3> QED BY <1>3, <3>1
  <2>2. Len(wire') <= 1
    BY <1>1, <1>2, <1>10 DEF WireInv
  <2>3. writing' = <<>>
    BY <1>1, <1>3 DEF WireInv
  <2>4. Len(wire') <= 2 /\ Len(wire') # 2
    BY <1>2, <1>10, <2>2
  <2> QED BY <2>1, <2>3, <2>4 DEF WireInv
<1>20. StoreInv'
  <2>1. ~Backward /\ shown' = 0 => Ascending(rows')
    BY <1>12, <1>15
  <2> QED BY <1>12, <1>14, <2>1 DEF StoreInv, IsInjective, Ascending
<1>21. ScanInv'
  BY <1>1, <1>3, <1>14 DEF ScanInv, Closing, Range
<1>22. CoverInv'
  <2>1. Bounded /\ shown' = 0 /\ dropped' = 0 => owed' \subseteq Sent' \cup Range(batch')
    BY <1>1, <1>3, <1>4, <1>13, <1>15 DEF CoverInv
  <2>2. ASSUME Forward, shown' = 0
        PROVE  /\ OnScreen' \subseteq Due
               /\ \A r \in OnScreen' : Earlier(r) \subseteq OnScreen'
               /\ ~Noticed' => \A r \in AllRows(wire') : Earlier(r) \subseteq Written'
               /\ dropped' = 0 => Covers(Written', Coming')
    <3>1. shown = 0 /\ ~Noticed /\ rest = <<>>
      BY <1>15, <1>16, <2>2
    <3>2. AllRows(rest) = {}
      BY <3>1, FewRows
    <3>3. Written = OnScreen \cup RowsOf(h) /\ AllRows(wire) = RowsOf(h)
      BY <1>11, <3>2 DEF Written
    <3>4. /\ OnScreen \subseteq Due
          /\ \A r \in OnScreen : Earlier(r) \subseteq OnScreen
          /\ \A r \in AllRows(wire) : Earlier(r) \subseteq Written
          /\ dropped = 0 => Covers(Written, Coming)
      BY <1>1, <2>2, <3>1 DEF CoverInv
    <3>5. OnScreen' \subseteq Due
      BY <1>12, <2>2, <3>4, FrameSays
    <3>6. \A r \in OnScreen' : Earlier(r) \subseteq OnScreen'
      BY <1>12, <3>3, <3>4
    <3>7. AllRows(wire') = {}
      BY <1>2, <3>2
    <3> QED BY <1>4, <1>6, <1>13, <3>4, <3>5, <3>6, <3>7
  <2> QED BY <1>3, <2>1, <2>2, CoverNext
<1>23. LiveInv'
  <2>1. ASSUME Live PROVE Ascends(OnScreen', wire')
    <3>1. Ascends(OnScreen, e \o rest)
      BY <1>1, <1>9, <2>1 DEF LiveInv
    <3>2. Ascends(OnScreen \cup AllRows(e), rest)
      BY <1>8, <3>1, AscendsConcat
    <3> QED BY <1>2, <1>8, <1>12, <3>2
  <2> QED BY <1>1, <1>3, <1>6, <1>13, <2>1, LiveNext DEF LiveInv
<1> QED BY <1>17, <1>18, <1>19, <1>20, <1>21, <1>22, <1>23 DEF StreamInv

\* The empty batch.
LEMMA EmptyBatch == <<>> \in Batches /\ Range(<<>>) = {}
<1>1. Len(<<>>) = 0 /\ 1 .. 0 = {} /\ <<>> \in Seq(RowId)
  OBVIOUS
<1>2. Range(<<>>) = {}
  BY <1>1 DEF Range
<1> QED BY <1>1, <1>2 DEF Batches, Ascending

\* A new connection: an empty ring, and at most the server's `resumed` to read.
LEMMA ReconnectStep == ASSUME StreamInv, Reconnect PROVE StreamInv'
<1>1. TypeInv /\ EndInv /\ WireInv /\ ScanInv /\ CoverInv /\ LiveInv /\ StoreInv
  BY DEF StreamInv
<1>2. /\ query' = query /\ resume' = lastId /\ source = "open" /\ source' = source /\ lastId' = lastId
      /\ rows' = rows /\ shown' = shown /\ phase' = phase
      /\ queue' = <<>> /\ dropped' = 0 /\ senderGone' = FALSE /\ receiverGone' = FALSE
      /\ pump' = "starting" /\ outbox' = <<>> /\ batch' = <<>> /\ cut' = FALSE
      /\ owed' = {} /\ writing' = <<>> /\ told' = 0
      /\ cursor' = IF Bounded THEN [p \in Partitions |-> 0] ELSE cursor
      /\ wire' = IF lastId # NoId THEN <<Frame("resumed", lastId)>> ELSE <<>>
  BY DEF Reconnect
<1>3. Coming' = <<>>
  <2>1. <<>> \o <<>> = <<>>
    BY ConcatEmptySeq, EmptySeq
  <2>2. Coming' = <<>> \o <<>> \o <<>>
    BY <1>2 DEF Coming
  <2> QED BY <2>1, <2>2
<1>4. PICK w : w = wire'
  OBVIOUS
<1>5. w \in Seq(Frames) /\ Len(w) <= 1 /\ AllRows(w) = {} /\ NoDone(w) /\ (w # <<>> => w[1].kind # "dropped")
  <2>1. CASE lastId = NoId
    <3>1. w = <<>>
      BY <1>2, <1>4, <2>1
    <3>2. AllRows(w) = {} /\ NoDone(w)
      BY <3>1, FewRows, DoneFew
    <3>3. w \in Seq(Frames) /\ Len(w) <= 1
      BY <3>1, EmptySeq
    <3> QED BY <3>1, <3>2, <3>3
  <2>2. CASE lastId # NoId
    <3>1. lastId \in RowId
      BY <1>1, <2>2, RowsTyped DEF TypeInv
    <3>2. PICK f : f = Frame("resumed", lastId)
      OBVIOUS
    <3>3. f \in Frames /\ RowsOf(f) = {} /\ f # Done /\ f.kind # "dropped"
      BY <3>1, <3>2, PlainFrames DEF Frame
    <3>4. w = <<f>>
      BY <1>2, <1>4, <2>2, <3>2
    <3> QED BY <3>3, <3>4, FewRows, DoneFew
  <2> QED BY <2>1, <2>2
<1>6. /\ OnScreen' = OnScreen /\ Written' = OnScreen /\ Sent' = OnScreen
      /\ AllRows(wire') = {} /\ ~Noticed'
  <2>1. OnScreen' = OnScreen
    BY <1>2 DEF OnScreen
  <2>2. AllRows(wire)' = {} /\ AllRows(Coming)' = {}
    BY <1>3, <1>4, <1>5, FewRows DEF AllRows
  <2>3. ~Noticed'
    BY <1>4, <1>5 DEF Noticed
  <2> QED BY <1>4, <1>5, <2>1, <2>2, <2>3 DEF Written, Sent
<1>7. /\ Frames' = Frames /\ Batches' = Batches /\ Due' = Due
      /\ (Bounded' <=> Bounded) /\ (Backward' <=> Backward) /\ (Forward' <=> Forward)
      /\ \A p : Begin(p)' = Begin(p)
  BY <1>2, QueryStays
<1>8. TypeInv'
  <2>1. cursor' \in [Partitions -> Nat]
    BY <1>1, <1>2 DEF TypeInv
  <2>2. queue' \in Seq(Frames) /\ outbox' \in Seq(Frames) /\ writing' \in Seq(Frames)
        /\ Len(queue') <= Capacity /\ Len(writing') <= 1
    BY <1>2, CapacityAssumption, EmptySeq
  <2>3. wire' \in Seq(Frames)
    BY <1>4, <1>5
  <2> QED BY <1>1, <1>2, <1>6, <1>7, <2>1, <2>2, <2>3, EmptyBatch DEF TypeInv
<1>9. EndInv'
  <2>1. Pending' = w
    <3>1. Pending' = w \o <<>>
      BY <1>3, <1>4 DEF Pending
    <3> QED BY <1>5, <3>1, ConcatEmptySeq
  <2>2. NoDone(Pending)'
    BY <1>5, <2>1 DEF NoDone
  <2> QED BY <1>1, <1>2, <2>2 DEF EndInv, Closing
<1>10. WireInv' /\ StoreInv'
  <2>1. WireInv'
    BY <1>2, <1>4, <1>5, EmptySeq DEF WireInv
  <2>2. StoreInv'
    BY <1>1, <1>2, <1>7 DEF StoreInv, IsInjective, Ascending
  <2> QED BY <2>1, <2>2
<1>11. ScanInv'
  <2>1. Range(batch)' = {}
    BY <1>2, EmptyBatch DEF Range
  <2> QED BY <1>2, <2>1 DEF ScanInv, Closing
<1>12. CoverInv'
  <2>1. \A base : Covers(base, <<>>)
    BY CoversFew
  <2>2. Covers(Written', Coming')
    BY <1>3, <2>1
  <2> QED BY <1>1, <1>2, <1>6, <2>2, CoverNext DEF CoverInv
<1>13. LiveInv'
  <2>1. Ascends(OnScreen', wire') /\ Ascends(Written', Coming')
    <3>1. Plain(wire')
      BY <1>4, <1>5 DEF Plain
    <3> QED BY <1>3, <3>1, PlainSays, AscendsFew
  <2>2. ASSUME Live PROVE \A r \in Sent' : r[2] < cursor'[r[1]]
    <3>1. cursor' = cursor
      BY <1>2, <2>2 DEF Live, Bounded
    <3>2. \A r \in OnScreen : r[2] < cursor[r[1]]
      BY <1>1, <2>2 DEF LiveInv, Sent, Written
    <3> QED BY <1>6, <3>1, <3>2
  <2>3. Range(batch') = {}
    BY <1>2, EmptyBatch
  <2> QED BY <1>2, <2>1, <2>2, <2>3, LiveNext
<1> QED BY <1>8, <1>9, <1>10, <1>11, <1>12, <1>13 DEF StreamInv

\* The first connection of a window.
LEMMA InitStep == ASSUME StreamInit PROVE StreamInv
<1>1. /\ query \in Queries /\ queue = <<>> /\ dropped = 0 /\ senderGone = FALSE /\ receiverGone = FALSE
      /\ resume = NoId /\ pump = "starting" /\ outbox = <<>> /\ batch = <<>> /\ cut = FALSE
      /\ cursor = [p \in Partitions |-> 0] /\ owed = {}
      /\ writing = <<>> /\ told = 0 /\ wire = <<>>
      /\ source = "open" /\ lastId = NoId /\ rows = <<>> /\ shown = 0 /\ phase = NoId
  BY DEF StreamInit, Fresh
<1>2. Coming = <<>> /\ Pending = <<>>
  <2>1. <<>> \o <<>> = <<>>
    BY ConcatEmptySeq, EmptySeq
  <2>2. Coming = <<>> \o <<>> \o <<>>
    BY <1>1 DEF Coming
  <2>3. Coming = <<>>
    BY <2>1, <2>2
  <2> QED BY <1>1, <2>1, <2>3 DEF Pending
<1>3. OnScreen = {} /\ Written = {} /\ Sent = {} /\ ~Noticed /\ AllRows(wire) = {}
  <2>1. OnScreen = {}
    BY <1>1, EmptyBatch DEF OnScreen
  <2>2. AllRows(wire) = {} /\ AllRows(Coming) = {}
    BY <1>1, <1>2, FewRows
  <2> QED BY <1>1, <2>1, <2>2 DEF Written, Sent, Noticed
<1>4. TypeInv
  <2>1. wire \in Seq(Frames) /\ queue \in Seq(Frames) /\ outbox \in Seq(Frames) /\ writing \in Seq(Frames)
        /\ Len(queue) <= Capacity /\ Len(writing) <= 1 /\ rows \in Seq(RowId)
    BY <1>1, CapacityAssumption, EmptySeq
  <2>2. batch \in Batches /\ cursor \in [Partitions -> Nat]
    BY <1>1, EmptyBatch
  <2> QED BY <1>1, <2>1, <2>2 DEF TypeInv
<1>5. EndInv
  BY <1>1, <1>2, DoneFew, StreamAssumption DEF EndInv, Closing
<1>6. WireInv
  BY <1>1, EmptySeq DEF WireInv
<1>7. StoreInv
  <2>1. Len(rows) = 0 /\ 1 .. 0 = {}
    BY <1>1
  <2>2. DOMAIN rows = {}
    BY <1>1
  <2> QED BY <2>1, <2>2 DEF StoreInv, IsInjective, Ascending
<1>8. ScanInv
  BY <1>1, EmptyBatch DEF ScanInv, Closing
<1>9. CoverInv
  BY <1>1, <1>2, <1>3, CoversFew DEF CoverInv
<1>10. LiveInv
  <2>1. Ascends(OnScreen, wire) /\ Ascends(Written, Coming)
    BY <1>1, <1>2, AscendsFew
  <2> QED BY <1>1, <1>3, <2>1, EmptyBatch DEF LiveInv
<1> QED BY <1>4, <1>5, <1>6, <1>7, <1>8, <1>9, <1>10 DEF StreamInv

\* Nothing happens.
LEMMA StutterStep == ASSUME StreamInv, UNCHANGED vars PROVE StreamInv'
<1>1. TypeInv /\ EndInv /\ WireInv /\ ScanInv /\ CoverInv /\ LiveInv /\ StoreInv
  BY DEF StreamInv
<1>2. /\ query' = query /\ resume' = resume /\ cursor' = cursor /\ batch' = batch /\ pump' = pump
      /\ cut' = cut /\ owed' = owed /\ dropped' = dropped /\ outbox' = outbox /\ queue' = queue
      /\ writing' = writing /\ told' = told /\ wire' = wire
      /\ source' = source /\ lastId' = lastId /\ rows' = rows /\ shown' = shown /\ phase' = phase
      /\ senderGone' = senderGone /\ receiverGone' = receiverGone
  BY DEF vars, slots, fixed, pumpVars, writerVars, readerVars
<1>3. Coming' = Coming
  BY <1>2 DEF Coming
<1>4. /\ OnScreen' = OnScreen /\ Written' = Written /\ Sent' = Sent /\ Pending' = Pending
      /\ AllRows(wire') = AllRows(wire) /\ (Noticed' <=> Noticed)
  BY <1>2, <1>3 DEF OnScreen, Written, Sent, AllRows, Pending, Noticed
<1>5. /\ Frames' = Frames /\ Batches' = Batches /\ Due' = Due
      /\ (Bounded' <=> Bounded) /\ (Backward' <=> Backward) /\ (Forward' <=> Forward)
      /\ \A p : Begin(p)' = Begin(p)
  BY <1>2, QueryStays
<1>6. TypeInv'
  BY <1>1, <1>2, <1>4, <1>5 DEF TypeInv
<1>7. EndInv'
  <2>1. (NoDone(Pending)' <=> NoDone(Pending)) /\ (Ends(Pending)' <=> Ends(Pending))
    BY <1>4 DEF NoDone, Ends
  <2> QED BY <1>1, <1>2, <1>3, <1>4, <2>1 DEF EndInv, Closing
<1>8. WireInv' /\ StoreInv'
  BY <1>1, <1>2, <1>4, <1>5 DEF WireInv, StoreInv, IsInjective, Ascending
<1>9. ScanInv'
  BY <1>1, <1>2, <1>5 DEF ScanInv, Closing, Range
<1>10. CoverInv'
  BY <1>1, <1>2, <1>3, <1>4, CoverNext DEF CoverInv
<1>11. LiveInv'
  BY <1>1, <1>2, <1>3, <1>4, LiveNext DEF LiveInv
<1> QED BY <1>6, <1>7, <1>8, <1>9, <1>10, <1>11 DEF StreamInv

\* Every step keeps the invariant.
LEMMA NextStep == ASSUME StreamInv, [StreamNext]_vars PROVE StreamInv'
<1>1. CASE Pump
  BY <1>1, PushesStep, SeekStep, ResolveStep, OpenScanStep, ReadRefusedStep, ReadTailStep, CloseStep DEF Pump
<1>2. CASE Scan
  BY <1>2, RecordStep, MalformedStep, ScanEndsStep, ScanFailsStep DEF Scan
<1>3. CASE Flush \/ Interrupted
  BY <1>3, FlushTick, InterruptedStep
<1>4. CASE TakeFrame \/ WriteFrame
  BY <1>4, TakeFrameStep, WriteFrameStep
<1>5. CASE ReadEvent \/ Reconnect
  BY <1>5, ReadEventStep, ReconnectStep
<1>6. CASE UNCHANGED vars
  BY <1>6, StutterStep
<1> QED BY <1>1, <1>2, <1>3, <1>4, <1>5, <1>6 DEF StreamNext

\* The inductive invariant: what every state of a window, over any number of
\* connections, satisfies.
THEOREM StreamInvHolds == StreamSafety => []StreamInv
<1>1. StreamInit => StreamInv
  BY InitStep
<1>2. StreamInv /\ [StreamNext]_vars => StreamInv'
  BY NextStep
<1> QED BY <1>1, <1>2, PTL DEF StreamSafety

\* `done` on the screen and no banner: every frame was read, and none dropped.
LEMMA LossIsTold == StreamInv => NoSilentLoss
<1> SUFFICES ASSUME StreamInv, phase = "done", ~cut, shown = 0
             PROVE  owed \subseteq Range(rows)
  BY DEF NoSilentLoss
<1>1. TypeInv /\ EndInv /\ WireInv /\ ScanInv /\ CoverInv
  BY DEF StreamInv
<1>2. Closing /\ Pending = <<>>
  BY <1>1 DEF EndInv
<1>3. wire = <<>> /\ Coming = <<>>
  <2>1. wire \in Seq(Frames) /\ Coming \in Seq(Frames)
    BY <1>1, RowsTyped DEF TypeInv
  <2> QED BY <1>2, <2>1, PendingEnds DEF Pending
<1>4. dropped = 0
  <2>1. told = dropped
    BY <1>1, <1>2, <1>3 DEF EndInv
  <2>2. ~(told > 0)
    BY <1>1, <1>3 DEF WireInv, Noticed
  <2> QED BY <1>1, <2>1, <2>2 DEF TypeInv
<1>5. batch = <<>> /\ Bounded
  BY <1>1, <1>2 DEF ScanInv
<1>6. owed \subseteq Sent
  BY <1>1, <1>4, <1>5, EmptyBatch DEF CoverInv
<1>7. Sent = OnScreen
  BY <1>3, FewRows DEF Sent, Written
<1> QED BY <1>6, <1>7 DEF OnScreen

\* A task that has ended has pushed `done`, and the ring never drops the newest.
LEMMA EndIsTold == StreamInv => ServerEndIsTold
<1> SUFFICES ASSUME StreamInv, queue = <<>>, senderGone, writing = <<>>, wire = <<>>, source = "open"
             PROVE  FALSE
  BY DEF ServerEndIsTold, AtEnd
<1>1. EndInv
  BY DEF StreamInv
<1>2. Closing /\ outbox = <<>>
  BY <1>1 DEF EndInv, Closing
<1>3. Pending = <<>>
  <2>1. <<>> \o <<>> = <<>>
    BY ConcatEmptySeq, EmptySeq
  <2>2. Coming = <<>> \o <<>> \o <<>>
    BY <1>2 DEF Coming
  <2>3. Coming = <<>>
    BY <2>1, <2>2
  <2> QED BY <2>1, <2>3 DEF Pending
<1> QED BY <1>1, <1>2, <1>3 DEF EndInv, Ends

\* No record is lost in silence, whatever the log, the query, the capacity of
\* the ring and the interleaving, over any number of connections.
THEOREM LossIsNeverSilent == StreamSafety => []NoSilentLoss
BY StreamInvHolds, LossIsTold, PTL

\* A response the server completes has told the reader `done`.
THEOREM TheEndIsTold == StreamSafety => []ServerEndIsTold
BY StreamInvHolds, EndIsTold, PTL

\* A row has one place in the store, and a forward window keeps each
\* partition in offset order unless the banner says that rows were dropped.
THEOREM TheStoreIsOrdered == StreamSafety => []RowsInOrder
<1>1. StreamInv => RowsInOrder
  BY DEF StreamInv, StoreInv, RowsInOrder, Ascending
<1> QED BY <1>1, StreamInvHolds, PTL

=============================================================================
