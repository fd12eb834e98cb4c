------------------------ MODULE StreamService_proofs ------------------------
(***************************************************************************)
(* Proofs about the stream governor, and then about the two routes over    *)
(* it, for any callers, clusters and ceilings.                             *)
(*                                                                         *)
(* The governor: the buckets hold exactly the ids whose permit is alive    *)
(* and whose latch has not been tripped (LedgerAgrees), so what the        *)
(* counter must equal is a set read off `permits` and `stopped`; each      *)
(* action adds one id to that set, removes one, swaps one or leaves it.    *)
(* A bucket is increasing, so its front is in it once and removing one     *)
(* position removes one id.                                                *)
(*                                                                         *)
(* The routes, in two halves.  A handler or a task reaches the governor    *)
(* only through acquire and through the drop of a permit it holds, so the  *)
(* service implements the governor and inherits what is proved of it.      *)
(* That a task holds a permit while it lives needs the ids of the streams  *)
(* to be those handed out so far (Numbered): a new stream's id is nobody   *)
(* else's, so the permit an early return or an ended task drops is its own.*)
(***************************************************************************)
EXTENDS StreamService, TLAPS, FiniteSetTheorems, SequenceTheorems

(***************************************************************************)
(* Lemmas on the sequences a bucket goes through: first by index, then of  *)
(* Append, Tail and Without.                                               *)
(***************************************************************************)

\* One larger element after the last keeps a sequence increasing.
LEMMA ExtendedBy ==
  ASSUME NEW s, NEW t, NEW e \in Nat, NEW n \in Nat, Len(s) = n, Len(t) = n + 1,
         \A i \in 1 .. n : t[i] = s[i], t[n + 1] = e
  PROVE  /\ Increasing(s) /\ (\A i \in 1 .. n : s[i] < e) => Increasing(t)
         /\ Entries(t) = Entries(s) \cup {e}
<1>1. Increasing(s) /\ (\A i \in 1 .. n : s[i] < e) => Increasing(t)
  BY DEF Increasing
<1>2. ASSUME NEW x \in Entries(t) PROVE x \in Entries(s) \cup {e}
  <2>1. PICK i \in 1 .. n + 1 : t[i] = x
    BY <1>2 DEF Entries
  <2>2. CASE i = n + 1
    BY <2>1, <2>2
  <2>3. CASE i # n + 1
    BY <2>1, <2>3 DEF Entries
  <2> QED BY <2>2, <2>3
<1>3. ASSUME NEW x \in Entries(s) \cup {e} PROVE x \in Entries(t)
  <2>1. CASE x = e
    BY <2>1 DEF Entries
  <2>2. CASE x # e
    <3>1. PICK i \in 1 .. n : s[i] = x
      BY <1>3, <2>2 DEF Entries
    <3> QED BY <3>1 DEF Entries
  <2> QED BY <2>1, <2>2
<1> QED BY <1>1, <1>2, <1>3

\* w is s, of length n, without its i-th element.
LeavesOut(s, w, n, i) ==
  /\ n \in Nat /\ i \in 1 .. n /\ Len(s) = n /\ Len(w) = n - 1
  /\ \A j \in 1 .. n : s[j] \in Nat
  /\ \A j \in 1 .. n - 1 : w[j] = IF j < i THEN s[j] ELSE s[j + 1]

\* Leaving out one position of an increasing sequence removes one element.
LEMMA LeavingOut ==
  ASSUME NEW s, NEW w, NEW n, NEW i, LeavesOut(s, w, n, i), Increasing(s)
  PROVE  /\ Increasing(w)
         /\ Entries(w) = Entries(s) \ {s[i]}
<1> USE DEF LeavesOut
<1>1. Increasing(w)
  BY DEF Increasing
<1>2. \A j \in 1 .. n : j # i => s[j] # s[i]
  BY DEF Increasing
<1>3. ASSUME NEW x \in Entries(w) PROVE x \in Entries(s) \ {s[i]}
  <2>1. PICK j \in 1 .. n - 1 : w[j] = x
    BY <1>3 DEF Entries
  <2>2. PICK k \in 1 .. n : k # i /\ s[k] = x
    <3>1. CASE j < i
      BY <2>1, <3>1
    <3>2. CASE ~(j < i)
      <4>1. j + 1 \in 1 .. n /\ j + 1 # i /\ s[j + 1] = x
        BY <2>1, <3>2
      <4> QED BY <4>1
    <3> QED BY <3>1, <3>2
  <2> QED BY <2>2, <1>2 DEF Entries
<1>4. ASSUME NEW x \in Entries(s), x # s[i] PROVE x \in Entries(w)
  <2>1. PICK j \in 1 .. n : s[j] = x
    BY <1>4 DEF Entries
  <2>2. CASE j < i
    BY <2>1, <2>2 DEF Entries
  <2>3. CASE j > i
    <3>1. j - 1 \in 1 .. n - 1 /\ w[j - 1] = s[j]
      BY <2>3
    <3> QED BY <3>1, <2>1 DEF Entries
  <2> QED BY <2>1, <2>2, <2>3, <1>4
<1> QED BY <1>1, <1>3, <1>4

\* push_back of a larger id keeps a bucket increasing and adds that id.
LEMMA AppendEntries ==
  ASSUME NEW S \in SUBSET Nat, NEW s \in Seq(S), NEW e \in S, Increasing(s),
         \A x \in Entries(s) : x < e
  PROVE  /\ Append(s, e) \in Seq(S) \ {<<>>}
         /\ Len(Append(s, e)) = Len(s) + 1
         /\ Increasing(Append(s, e))
         /\ Entries(Append(s, e)) = Entries(s) \cup {e}
<1>1. /\ Append(s, e) \in Seq(S)
      /\ Append(s, e) # <<>>
      /\ Len(Append(s, e)) = Len(s) + 1
      /\ \A i \in 1 .. Len(s) : Append(s, e)[i] = s[i]
      /\ Append(s, e)[Len(s) + 1] = e
  BY AppendProperties
<1>2. Len(s) \in Nat /\ e \in Nat
  BY LenProperties
<1>3. \A i \in 1 .. Len(s) : s[i] < e
  BY DEF Entries
<1>4. PICK t, n : t = Append(s, e) /\ n = Len(s)
  OBVIOUS
<1>5. Increasing(t) /\ Entries(t) = Entries(s) \cup {e}
  <2>1. /\ n \in Nat /\ e \in Nat /\ Len(s) = n /\ Len(t) = n + 1
        /\ \A i \in 1 .. n : t[i] = s[i]
        /\ t[n + 1] = e
        /\ \A i \in 1 .. n : s[i] < e
    BY <1>1, <1>2, <1>3, <1>4
  <2> QED BY <2>1, ExtendedBy
<1> QED BY <1>1, <1>4, <1>5

\* pop_front of an increasing bucket removes its least id, and nothing else.
LEMMA TailEntries ==
  ASSUME NEW S \in SUBSET Nat, NEW s \in Seq(S), s # <<>>, Increasing(s)
  PROVE  /\ Tail(s) \in Seq(S)
         /\ Len(Tail(s)) = Len(s) - 1
         /\ Increasing(Tail(s))
         /\ Head(s) \in Entries(s)
         /\ \A x \in Entries(s) : Head(s) <= x
         /\ Entries(Tail(s)) = Entries(s) \ {Head(s)}
<1>1. /\ Tail(s) \in Seq(S)
      /\ Len(Tail(s)) = Len(s) - 1
      /\ \A i \in 1 .. Len(Tail(s)) : Tail(s)[i] = s[i + 1]
  BY HeadTailProperties
<1>2. Len(s) \in Nat /\ Len(s) # 0
  BY LenProperties, EmptySeq
<1>3. /\ \A i \in 1 .. Len(s) : s[i] \in S
      /\ Head(s) = s[1]
  BY ElementOfSeq
<1>4. /\ 1 \in 1 .. Len(s)
      /\ \A j \in 1 .. Len(s) - 1 : Tail(s)[j] = IF j < 1 THEN s[j] ELSE s[j + 1]
  BY <1>1, <1>2
<1>5. \A i \in 1 .. Len(s) : s[i] \in Nat
  BY <1>3
<1>6. Increasing(Tail(s)) /\ Entries(Tail(s)) = Entries(s) \ {s[1]}
  <2>1. LeavesOut(s, Tail(s), Len(s), 1)
    BY <1>1, <1>2, <1>4, <1>5 DEF LeavesOut
  <2> QED BY <2>1, LeavingOut
<1>7. Head(s) \in Entries(s)
  BY <1>3, <1>4 DEF Entries
<1>8. ASSUME NEW x \in Entries(s) PROVE Head(s) <= x
  <2>1. PICK i \in 1 .. Len(s) : s[i] = x
    BY <1>8 DEF Entries
  <2>2. i = 1 \/ s[1] < s[i]
    BY <1>2, <1>4 DEF Increasing
  <2>3. s[1] \in Nat /\ s[i] \in Nat
    BY <1>4, <1>5
  <2> QED BY <1>3, <2>1, <2>2, <2>3
<1> QED BY <1>1, <1>3, <1>6, <1>7, <1>8

\* Removing one position of an increasing bucket removes one id.
LEMMA WithoutEntries ==
  ASSUME NEW S \in SUBSET Nat, NEW s \in Seq(S), Increasing(s), NEW i \in 1 .. Len(s)
  PROVE  /\ Without(s, i) \in Seq(S)
         /\ Len(Without(s, i)) = Len(s) - 1
         /\ Increasing(Without(s, i))
         /\ Entries(Without(s, i)) = Entries(s) \ {s[i]}
<1> DEFINE n == Len(s)
           u == SubSeq(s, 1, i - 1)
           v == SubSeq(s, i + 1, n)
<1>1. n \in Nat /\ i \in 1 .. n
  BY LenProperties
<1>2. \A j \in 1 .. n : s[j] \in S
  BY ElementOfSeq
<1> HIDE DEF n
<1>3. /\ u \in Seq(S)
      /\ Len(u) = i - 1
      /\ \A j \in 1 .. i - 1 : u[j] = s[j]
  <2>1. 1 \in Int /\ i - 1 \in Int /\ \A j \in 1 .. i - 1 : s[j] \in S
    BY <1>1, <1>2
  <2>2. /\ u \in Seq(S)
        /\ Len(u) = IF 1 <= i - 1 THEN i - 1 - 1 + 1 ELSE 0
        /\ \A j \in 1 .. i - 1 - 1 + 1 : u[j] = s[1 + j - 1]
    BY <2>1, SubSeqProperties
  <2> HIDE DEF u
  <2> QED BY <2>2, <1>1
<1>4. /\ v \in Seq(S)
      /\ Len(v) = n - i
      /\ \A j \in 1 .. n - i : v[j] = s[i + j]
  <2>1. i + 1 \in Int /\ n \in Int /\ \A j \in i + 1 .. n : s[j] \in S
    BY <1>1, <1>2
  <2>2. /\ v \in Seq(S)
        /\ Len(v) = IF i + 1 <= n THEN n - (i + 1) + 1 ELSE 0
        /\ \A j \in 1 .. n - (i + 1) + 1 : v[j] = s[i + 1 + j - 1]
    BY <2>1, SubSeqProperties
  <2> HIDE DEF v
  <2> QED BY <2>2, <1>1
<1>5. Without(s, i) = u \o v
  BY DEF Without, n
<1>6. /\ u \o v \in Seq(S)
      /\ Len(u \o v) = Len(u) + Len(v)
      /\ \A j \in 1 .. Len(u) + Len(v) :
           (u \o v)[j] = IF j <= Len(u) THEN u[j] ELSE v[j - Len(u)]
  BY <1>3, <1>4, ConcatProperties
<1> HIDE DEF u, v
<1>7. Len(u) + Len(v) = n - 1
  BY <1>1, <1>3, <1>4
<1>8. ASSUME NEW j \in 1 .. n - 1
      PROVE  Without(s, i)[j] = IF j < i THEN s[j] ELSE s[j + 1]
  <2>1. Without(s, i)[j] = IF j <= i - 1 THEN u[j] ELSE v[j - (i - 1)]
    BY <1>3, <1>5, <1>6, <1>7
  <2>2. CASE j < i
    <3>1. j <= i - 1 /\ j \in 1 .. i - 1
      BY <1>1, <2>2
    <3> QED BY <2>1, <2>2, <3>1, <1>3
  <2>3. CASE ~(j < i)
    <3>1. ~(j <= i - 1) /\ j - (i - 1) \in 1 .. n - i /\ i + (j - (i - 1)) = j + 1
      BY <1>1, <2>3
    <3>2. v[j - (i - 1)] = s[j + 1]
      BY <3>1, <1>4
    <3> QED BY <2>1, <2>3, <3>1, <3>2
  <2> QED BY <2>2, <2>3
<1>9. \A j \in 1 .. n : s[j] \in Nat
  BY <1>2
<1>10. Len(s) = n /\ Len(Without(s, i)) = n - 1
  BY <1>5, <1>6, <1>7 DEF n
<1>11. Increasing(Without(s, i)) /\ Entries(Without(s, i)) = Entries(s) \ {s[i]}
  <2>1. LeavesOut(s, Without(s, i), n, i)
    BY <1>1, <1>8, <1>9, <1>10 DEF LeavesOut
  <2> QED BY <2>1, LeavingOut
<1> QED BY <1>5, <1>6, <1>10, <1>11

(***************************************************************************)
(* What the counter has to equal                                           *)
(***************************************************************************)
Active == {p.id : p \in {q \in permits : q.id \notin stopped}}

LEMMA BucketType ==
  ASSUME TypeOK, NEW k
  PROVE  Bucket(k) \in Seq(Ids)
BY DEF TypeOK, Bucket

LEMMA IdsAreNat == Ids \in SUBSET Nat
BY CeilingsAssumption DEF Ids

\* The buckets together hold the ids of the live, unevicted permits.
LEMMA CountedIsActive ==
  ASSUME TypeOK, LedgerAgrees
  PROVE  Counted = Active
<1>1. ASSUME NEW x \in Counted PROVE x \in Active
  <2>1. PICK k \in DOMAIN perPrincipal : x \in Entries(perPrincipal[k])
    BY <1>1 DEF Counted
  <2>2. k \in Keys /\ Bucket(k) = perPrincipal[k]
    BY <2>1 DEF TypeOK, Bucket
  <2> QED BY <2>1, <2>2 DEF LedgerAgrees, Active
<1>2. ASSUME NEW x \in Active PROVE x \in Counted
  <2>1. PICK p \in permits : p.id \notin stopped /\ x = p.id
    BY <1>2 DEF Active
  <2>2. p.principal \in Keys
    BY DEF TypeOK, Permits
  <2>3. x \in Entries(Bucket(p.principal))
    BY <2>1, <2>2 DEF LedgerAgrees
  <2>4. CASE p.principal \in DOMAIN perPrincipal
    BY <2>3, <2>4 DEF Bucket, Counted
  <2>5. CASE p.principal \notin DOMAIN perPrincipal
    <3>1. Bucket(p.principal) = <<>>
      BY <2>5 DEF Bucket
    <3>2. Entries(<<>>) = {}
      BY DEF Entries
    <3> QED BY <2>3, <3>1, <3>2
  <2> QED BY <2>4, <2>5
<1> QED BY <1>1, <1>2

LEMMA ActiveIsFinite ==
  ASSUME TypeOK
  PROVE  IsFiniteSet(Active) /\ Cardinality(Active) \in Nat
<1>1. IsFiniteSet(Ids)
  BY CeilingsAssumption, FS_Interval DEF Ids
<1>2. Active \in SUBSET Ids
  BY DEF TypeOK, Permits, Active
<1> QED BY <1>1, <1>2, FS_Subset, FS_CardinalityType

\* A counted stream means the counter is not zero, so no subtraction
\* saturates.
LEMMA CountedIsPositive ==
  ASSUME TypeOK, CountIsExact, LedgerAgrees, Active # {}
  PROVE  total # 0
BY ActiveIsFinite, CountedIsActive, FS_EmptySet DEF CountIsExact

LEMMA InitInvariant == Init => IInv
<1> SUFFICES ASSUME Init PROVE IInv
  OBVIOUS
<1>1. DOMAIN perPrincipal = {}
  BY DEF Init
<1>2. \A k : Entries(Bucket(k)) = {}
  BY <1>1 DEF Bucket, Entries
<1>3. TypeOK
  BY <1>1, CeilingsAssumption DEF Init, TypeOK
<1>4. HandedOut /\ OldestFirst
  BY <1>1 DEF Init, HandedOut, OldestFirst
<1>5. LedgerAgrees
  BY <1>2 DEF Init, LedgerAgrees
<1>6. CountIsExact
  <2>1. Counted = {}
    BY <1>1 DEF Counted
  <2> QED BY <2>1, FS_EmptySet DEF CountIsExact, Init
<1>7. CeilingsHold
  <2>1. \A k : Bucket(k) = <<>>
    BY <1>1 DEF Bucket
  <2> QED BY <2>1, CeilingsAssumption DEF CeilingsHold, Init
<1> QED BY <1>3, <1>4, <1>5, <1>6, <1>7 DEF IInv

(***************************************************************************)
(* Each action preserves the invariant                                     *)
(***************************************************************************)

\* What writing one bucket does to the others.
LEMMA BucketWritten ==
  ASSUME NEW key, NEW bucket, perPrincipal' = WithBucket(key, bucket)
  PROVE  /\ DOMAIN perPrincipal' = DOMAIN perPrincipal \cup {key}
         /\ \A k \in DOMAIN perPrincipal' :
              perPrincipal'[k] = IF k = key THEN bucket ELSE perPrincipal[k]
         /\ \A k : Bucket(k)' = IF k = key THEN bucket ELSE Bucket(k)
BY DEF WithBucket, Bucket

\* The permit an acquire hands out is new.
LEMMA HandedOutStep ==
  ASSUME IInv, NEW p \in Principals, HandOut(p), stopped' \in SUBSET Ids,
         \A i \in stopped' : i < nextId
  PROVE  /\ nextId \in Ids /\ nextId' \in 0 .. MaxStreams
         /\ permits' \subseteq Permits
         /\ HandedOut'
         /\ \A k \in Keys : nextId \notin Entries(Bucket(k))
         /\ \A k \in Keys : \A x \in Entries(Bucket(k)) : x < nextId
<1>1. nextId \in Ids /\ nextId' \in 0 .. MaxStreams
  BY CeilingsAssumption DEF IInv, TypeOK, HandOut, Ids
<1>2. permits' \subseteq Permits
  BY <1>1 DEF IInv, TypeOK, HandOut, Permits, Keys
<1>3. HandedOut'
  <2>1. \A q \in permits : q.id < nextId /\ q.id \in Nat
    BY IdsAreNat DEF IInv, HandedOut, TypeOK, Permits
  <2>2. \A q \in permits' : q \in permits \/ (q.id = nextId /\ q = [id |-> nextId, principal |-> p.key])
    BY DEF HandOut
  <2>3. nextId \in Nat /\ nextId' = nextId + 1
    BY <1>1, IdsAreNat DEF HandOut
  <2>4. \A q \in permits' : q.id < nextId'
    BY <2>1, <2>2, <2>3
  <2>5. \A q, r \in permits' : q.id = r.id => q = r
    BY <2>1, <2>2, <2>3 DEF IInv, HandedOut
  <2>6. \A i \in stopped' : i < nextId'
    BY <2>3, IdsAreNat
  <2> QED BY <2>4, <2>5, <2>6 DEF HandedOut
<1>4. \A k \in Keys : \A x \in Entries(Bucket(k)) : x < nextId
  BY DEF IInv, LedgerAgrees, HandedOut
<1>5. \A k \in Keys : nextId \notin Entries(Bucket(k))
  BY <1>1, <1>4, IdsAreNat
<1> QED BY <1>1, <1>2, <1>3, <1>4, <1>5

LEMMA AdmitInvariant ==
  ASSUME IInv, NEW p \in Principals, Admit(p)
  PROVE  IInv'
<1> DEFINE old == Bucket(p.key)
           new == Append(old, nextId)
<1>0. /\ TypeOK /\ HandedOut /\ OldestFirst /\ LedgerAgrees /\ CountIsExact /\ CeilingsHold
      /\ HandOut(p) /\ stopped' = stopped
      /\ p.key \in Keys
  BY DEF IInv, Admit, Keys
<1>1. /\ nextId \in Ids /\ nextId' \in 0 .. MaxStreams
      /\ permits' \subseteq Permits
      /\ HandedOut'
      /\ \A k \in Keys : nextId \notin Entries(Bucket(k))
      /\ \A k \in Keys : \A x \in Entries(Bucket(k)) : x < nextId
  <2>1. stopped' \in SUBSET Ids /\ \A i \in stopped' : i < nextId
    BY <1>0 DEF TypeOK, HandedOut
  <2> QED BY <1>0, <2>1, HandedOutStep
<1>2. old \in Seq(Ids) /\ Increasing(old)
  <2>1. Increasing(<<>>)
    BY DEF Increasing
  <2> QED BY <1>0, <2>1, BucketType DEF OldestFirst, Bucket
<1>3. /\ new \in Seq(Ids) \ {<<>>}
      /\ Len(new) = Len(old) + 1
      /\ Increasing(new)
      /\ Entries(new) = Entries(old) \cup {nextId}
  <2>1. \A x \in Entries(old) : x < nextId
    BY <1>0, <1>1
  <2> HIDE DEF old
  <2> QED BY <1>1, <1>2, <2>1, IdsAreNat, AppendEntries
<1>4. /\ DOMAIN perPrincipal' = DOMAIN perPrincipal \cup {p.key}
      /\ \A k \in DOMAIN perPrincipal' :
           perPrincipal'[k] = IF k = p.key THEN new ELSE perPrincipal[k]
      /\ \A k : Bucket(k)' = IF k = p.key THEN new ELSE Bucket(k)
  BY BucketWritten DEF Admit
<1> HIDE DEF new, old
<1>5. TypeOK'
  <2>1. total' \in Nat
    BY <1>0 DEF TypeOK, Admit
  <2>2. \A k \in DOMAIN perPrincipal' : perPrincipal'[k] \in Seq(Ids) \ {<<>>}
    BY <1>0, <1>3, <1>4 DEF TypeOK
  <2> QED BY <1>0, <1>1, <1>4, <2>1, <2>2 DEF TypeOK
<1>6. OldestFirst'
  BY <1>0, <1>3, <1>4 DEF OldestFirst
<1>7. LedgerAgrees'
  <2> SUFFICES ASSUME NEW k \in Keys
               PROVE  Entries(Bucket(k)')
                        = {q.id : q \in {r \in permits' : r.principal = k /\ r.id \notin stopped'}}
    BY DEF LedgerAgrees
  <2>1. Entries(Bucket(k)) = {q.id : q \in {r \in permits : r.principal = k /\ r.id \notin stopped}}
    BY <1>0 DEF LedgerAgrees
  <2>2. permits' = permits \cup {[id |-> nextId, principal |-> p.key]}
    BY <1>0 DEF HandOut
  <2>3. nextId \notin stopped
    BY <1>0, <1>1, IdsAreNat DEF HandedOut
  <2> DEFINE r == [id |-> nextId, principal |-> p.key]
  <2>4. r.id = nextId /\ r.principal = p.key /\ permits' = permits \cup {r}
    BY <2>2
  <2> HIDE DEF r
  <2>5. CASE k = p.key
    <3>1. Entries(Bucket(k)') = Entries(Bucket(k)) \cup {nextId}
      BY <1>3, <1>4, <2>5 DEF old
    <3> QED BY <1>0, <2>1, <2>3, <2>4, <2>5, <3>1
  <2>6. CASE k # p.key
    <3>1. Bucket(k)' = Bucket(k)
      BY <1>4, <2>6
    <3> QED BY <1>0, <2>1, <2>4, <2>6, <3>1
  <2> QED BY <2>5, <2>6
<1>8. CountIsExact'
  <2>1. Active' = Active \cup {nextId} /\ nextId \notin Active
    <3>1. nextId \notin Active
      BY <1>0, <1>1, IdsAreNat DEF Active, HandedOut
    <3>2. nextId \notin stopped
      BY <1>0, <1>1, IdsAreNat DEF HandedOut
    <3> DEFINE r == [id |-> nextId, principal |-> p.key]
    <3>3. r.id = nextId /\ permits' = permits \cup {r}
      BY <1>0 DEF HandOut
    <3> HIDE DEF r
    <3> QED BY <1>0, <3>1, <3>2, <3>3 DEF Active
  <2>2. Counted = Active /\ Counted' = Active'
    <3>1. Counted = Active
      BY <1>0, CountedIsActive
    <3>2. (TypeOK /\ LedgerAgrees => Counted = Active)'
      BY CountedIsActive, PTL
    <3> QED BY <1>5, <1>7, <3>1, <3>2
  <2>3. Cardinality(Active') = Cardinality(Active) + 1
    BY <1>0, <2>1, ActiveIsFinite, FS_AddElement
  <2>4. total' = total + 1
    BY DEF Admit
  <2> QED BY <1>0, <2>2, <2>3, <2>4 DEF CountIsExact
<1>9. CeilingsHold'
  <2>1. total' <= MaxTotal
    BY <1>0, CeilingsAssumption DEF TypeOK, Admit
  <2>2. ASSUME NEW k \in Keys, \A q \in Principals : q.key = k => q.distinguishable
        PROVE  Len(Bucket(k)') <= MaxPerPrincipal
    <3>1. CASE k = p.key
      <4>1. ~(Len(old) >= MaxPerPrincipal)
        BY <2>2, <3>1 DEF Admit, AtCeiling, old
      <4>2. Len(old) \in Nat
        BY <1>2, LenProperties
      <4>3. Len(Bucket(k)') = Len(old) + 1
        BY <1>3, <1>4, <3>1
      <4> QED BY <4>1, <4>2, <4>3, CeilingsAssumption
    <3>2. CASE k # p.key
      BY <1>0, <1>4, <2>2, <3>2 DEF CeilingsHold
    <3> QED BY <3>1, <3>2
  <2> QED BY <2>1, <2>2 DEF CeilingsHold
<1> QED BY <1>1, <1>5, <1>6, <1>7, <1>8, <1>9 DEF IInv

LEMMA EvictInvariant ==
  ASSUME IInv, NEW p \in Principals, Evict(p)
  PROVE  IInv'
<1> DEFINE old  == Bucket(p.key)
           rest == Tail(old)
           new  == Append(rest, nextId)
           head == Head(old)
<1>0. /\ TypeOK /\ HandedOut /\ OldestFirst /\ LedgerAgrees /\ CountIsExact /\ CeilingsHold
      /\ HandOut(p) /\ stopped' = stopped \cup {head}
      /\ p.key \in Keys
      /\ Len(old) >= MaxPerPrincipal
  BY DEF IInv, Evict, Keys, AtCeiling
<1>2. old \in Seq(Ids) /\ Increasing(old) /\ old # <<>>
  <2>1. Increasing(<<>>)
    BY DEF Increasing
  <2>2. old \in Seq(Ids) /\ Increasing(old)
    BY <1>0, <2>1, BucketType DEF OldestFirst, Bucket
  <2>3. Len(<<>>) = 0
    OBVIOUS
  <2>4. ~(0 >= MaxPerPrincipal)
    BY CeilingsAssumption
  <2> QED BY <1>0, <2>2, <2>3, <2>4
<1>3. /\ rest \in Seq(Ids)
      /\ Len(rest) = Len(old) - 1
      /\ Increasing(rest)
      /\ head \in Entries(old)
      /\ Entries(rest) = Entries(old) \ {head}
  <2> HIDE DEF old
  <2> QED BY <1>2, IdsAreNat, TailEntries
<1>4. \E q \in permits : q.principal = p.key /\ q.id \notin stopped /\ q.id = head
  BY <1>0, <1>3 DEF LedgerAgrees
<1>1. /\ nextId \in Ids /\ nextId' \in 0 .. MaxStreams
      /\ permits' \subseteq Permits
      /\ HandedOut'
      /\ \A k \in Keys : nextId \notin Entries(Bucket(k))
      /\ \A k \in Keys : \A x \in Entries(Bucket(k)) : x < nextId
  <2>1. head \in Ids /\ head < nextId
    BY <1>0, <1>4 DEF TypeOK, Permits, HandedOut
  <2>2. stopped' \in SUBSET Ids /\ \A i \in stopped' : i < nextId
    BY <1>0, <2>1 DEF TypeOK, HandedOut
  <2> QED BY <1>0, <2>2, HandedOutStep
<1>5. /\ new \in Seq(Ids) \ {<<>>}
      /\ Len(new) = Len(rest) + 1
      /\ Increasing(new)
      /\ Entries(new) = Entries(rest) \cup {nextId}
  <2>1. \A x \in Entries(rest) : x < nextId
    BY <1>0, <1>1, <1>3
  <2> HIDE DEF rest
  <2> QED BY <1>1, <1>3, <2>1, IdsAreNat, AppendEntries
<1>6. /\ DOMAIN perPrincipal' = DOMAIN perPrincipal \cup {p.key}
      /\ \A k \in DOMAIN perPrincipal' :
           perPrincipal'[k] = IF k = p.key THEN new ELSE perPrincipal[k]
      /\ \A k : Bucket(k)' = IF k = p.key THEN new ELSE Bucket(k)
  BY BucketWritten DEF Evict
<1> HIDE DEF new, rest, old, head
<1>7. head # nextId /\ nextId \notin stopped'
  BY <1>0, <1>1, <1>3, IdsAreNat DEF HandedOut, old
<1>8. head \in Active /\ head \notin stopped
  BY <1>0, <1>4 DEF Active
<1>9. total # 0 /\ total' = total
  <2>1. total # 0
    BY <1>0, <1>8, CountedIsPositive
  <2> QED BY <1>0, <2>1 DEF Evict, TypeOK
<1> DEFINE r == [id |-> nextId, principal |-> p.key]
<1>10. r.id = nextId /\ r.principal = p.key /\ permits' = permits \cup {r}
  BY <1>0 DEF HandOut
<1> HIDE DEF r
<1>11. TypeOK'
  <2>1. \A k \in DOMAIN perPrincipal' : perPrincipal'[k] \in Seq(Ids) \ {<<>>}
    BY <1>0, <1>5, <1>6 DEF TypeOK
  <2>2. stopped' \subseteq Ids
    BY <1>0, <1>4 DEF TypeOK, Permits
  <2> QED BY <1>0, <1>1, <1>6, <1>9, <2>1, <2>2 DEF TypeOK
<1>12. OldestFirst'
  BY <1>0, <1>5, <1>6 DEF OldestFirst
<1>13. LedgerAgrees'
  <2> SUFFICES ASSUME NEW k \in Keys
               PROVE  Entries(Bucket(k)')
                        = {q.id : q \in {s \in permits' : s.principal = k /\ s.id \notin stopped'}}
    BY DEF LedgerAgrees
  <2>1. Entries(Bucket(k)) = {q.id : q \in {s \in permits : s.principal = k /\ s.id \notin stopped}}
    BY <1>0 DEF LedgerAgrees
  <2>2. CASE k = p.key
    <3>1. Entries(Bucket(k)') = (Entries(Bucket(k)) \ {head}) \cup {nextId}
      BY <1>3, <1>5, <1>6, <2>2 DEF old
    <3>2. {q.id : q \in {s \in permits' : s.principal = k /\ s.id \notin stopped'}}
            = {q.id : q \in {s \in permits : s.principal = k /\ s.id \notin stopped'}} \cup {nextId}
      BY <1>7, <1>10, <2>2
    <3>3. {q.id : q \in {s \in permits : s.principal = k /\ s.id \notin stopped'}}
            = {q.id : q \in {s \in permits : s.principal = k /\ s.id \notin stopped}} \ {head}
      BY <1>0
    <3> QED BY <2>1, <3>1, <3>2, <3>3
  <2>3. CASE k # p.key
    <3>1. Bucket(k)' = Bucket(k)
      BY <1>6, <2>3
    <3>2. \A q \in permits : q.principal = k => q.id # head
      BY <1>0, <1>4, <2>3 DEF HandedOut
    <3> QED BY <1>0, <1>10, <2>1, <2>3, <3>1, <3>2
  <2> QED BY <2>2, <2>3
<1>14. CountIsExact'
  <2>1. Active' = (Active \ {head}) \cup {nextId}
    BY <1>0, <1>7, <1>10 DEF Active
  <2>2. nextId \notin Active
    BY <1>0, <1>1, IdsAreNat DEF Active, HandedOut
  <2>3. Counted = Active /\ Counted' = Active'
    <3>1. Counted = Active
      BY <1>0, CountedIsActive
    <3>2. (TypeOK /\ LedgerAgrees => Counted = Active)'
      BY CountedIsActive, PTL
    <3> QED BY <1>11, <1>13, <3>1, <3>2
  <2>4. IsFiniteSet(Active) /\ Cardinality(Active) \in Nat
    BY <1>0, ActiveIsFinite
  <2>5. /\ IsFiniteSet(Active \ {head})
        /\ Cardinality(Active \ {head}) = Cardinality(Active) - 1
    BY <1>8, <2>4, FS_RemoveElement
  <2>6. Cardinality((Active \ {head}) \cup {nextId}) = Cardinality(Active \ {head}) + 1
    BY <2>2, <2>5, FS_AddElement
  <2>7. Cardinality(Active') = Cardinality(Active)
    BY <2>1, <2>4, <2>5, <2>6
  <2> QED BY <1>0, <1>9, <2>3, <2>7 DEF CountIsExact
<1>15. CeilingsHold'
  <2>1. total' <= MaxTotal
    BY <1>0, <1>9 DEF CeilingsHold
  <2>2. ASSUME NEW k \in Keys, \A q \in Principals : q.key = k => q.distinguishable
        PROVE  Len(Bucket(k)') <= MaxPerPrincipal
    <3>1. CASE k = p.key
      <4>1. Len(old) \in Nat /\ Len(Bucket(k)') = Len(old)
        BY <1>2, <1>3, <1>5, <1>6, <3>1, LenProperties
      <4>2. Len(old) <= MaxPerPrincipal
        BY <1>0, <2>2, <3>1 DEF CeilingsHold, old
      <4> QED BY <4>1, <4>2
    <3>2. CASE k # p.key
      BY <1>0, <1>6, <2>2, <3>2 DEF CeilingsHold
    <3> QED BY <3>1, <3>2
  <2> QED BY <2>1, <2>2 DEF CeilingsHold
<1> QED BY <1>1, <1>11, <1>12, <1>13, <1>14, <1>15 DEF IInv

LEMMA ReleaseInvariant ==
  ASSUME IInv, NEW permit \in permits, Release(permit)
  PROVE  IInv'
<1> DEFINE key == permit.principal
           old == perPrincipal[key]
<1>0. /\ TypeOK /\ HandedOut /\ OldestFirst /\ LedgerAgrees /\ CountIsExact /\ CeilingsHold
      /\ key \in DOMAIN perPrincipal /\ key \in Keys
      /\ permits' = permits \ {permit} /\ nextId' = nextId /\ stopped' = stopped
      /\ total' = IF total = 0 THEN 0 ELSE total - 1
  BY DEF IInv, Release, TypeOK
<1>1. PICK i \in 1 .. Len(old) :
        /\ old[i] = permit.id
        /\ perPrincipal' = IF Without(old, i) = <<>>
                           THEN [k \in DOMAIN perPrincipal \ {key} |-> perPrincipal[k]]
                           ELSE WithBucket(key, Without(old, i))
  BY DEF Release
<1> DEFINE kept == Without(old, i)
<1>2. old \in Seq(Ids) /\ Increasing(old) /\ Bucket(key) = old
  BY <1>0 DEF TypeOK, OldestFirst, Bucket
<1>3. /\ kept \in Seq(Ids)
      /\ Len(kept) = Len(old) - 1
      /\ Increasing(kept)
      /\ Entries(kept) = Entries(old) \ {permit.id}
  <2> HIDE DEF old
  <2>1. /\ Without(old, i) \in Seq(Ids)
        /\ Len(Without(old, i)) = Len(old) - 1
        /\ Increasing(Without(old, i))
        /\ Entries(Without(old, i)) = Entries(old) \ {old[i]}
    BY <1>2, IdsAreNat, WithoutEntries
  <2> QED BY <1>1, <2>1
<1>4. permit.id \in Entries(old)
  BY <1>1 DEF Entries
<1> HIDE DEF kept, old
<1>5. /\ DOMAIN perPrincipal' \subseteq DOMAIN perPrincipal
      /\ \A k \in DOMAIN perPrincipal' :
           /\ perPrincipal'[k] = IF k = key THEN kept ELSE perPrincipal[k]
           /\ k = key => kept # <<>>
      /\ \A k : Bucket(k)' = IF k = key THEN kept ELSE Bucket(k)
  <2>1. CASE kept = <<>>
    <3>1. perPrincipal' = [k \in DOMAIN perPrincipal \ {key} |-> perPrincipal[k]]
      BY <1>1, <2>1 DEF kept, old
    <3> QED BY <2>1, <3>1 DEF Bucket
  <2>2. CASE kept # <<>>
    <3>1. perPrincipal' = WithBucket(key, kept)
      BY <1>1, <2>2 DEF kept, old
    <3>2. /\ DOMAIN perPrincipal' = DOMAIN perPrincipal \cup {key}
          /\ \A k \in DOMAIN perPrincipal' :
               perPrincipal'[k] = IF k = key THEN kept ELSE perPrincipal[k]
          /\ \A k : Bucket(k)' = IF k = key THEN kept ELSE Bucket(k)
      BY <3>1, BucketWritten
    <3> QED BY <1>0, <2>2, <3>2
  <2> QED BY <2>1, <2>2
<1>6. permit.id \notin stopped
  <2>1. PICK q \in permits : q.id = permit.id /\ q.id \notin stopped
    BY <1>0, <1>2, <1>4 DEF LedgerAgrees
  <2> QED BY <2>1
<1>7. permit.id \in Active
  BY <1>6 DEF Active
<1>8. total # 0 /\ total' = total - 1
  <2>1. total # 0
    BY <1>0, <1>7, CountedIsPositive
  <2> QED BY <1>0, <2>1
<1>9. \A q \in permits' : q.id # permit.id
  BY <1>0 DEF HandedOut
<1>10. TypeOK'
  <2>1. \A k \in DOMAIN perPrincipal' : perPrincipal'[k] \in Seq(Ids) \ {<<>>}
    BY <1>0, <1>3, <1>5 DEF TypeOK
  <2>2. total' \in Nat
    BY <1>0, <1>8 DEF TypeOK
  <2> QED BY <1>0, <1>5, <2>1, <2>2 DEF TypeOK
<1>11. HandedOut'
  BY <1>0 DEF HandedOut
<1>12. OldestFirst'
  BY <1>0, <1>3, <1>5 DEF OldestFirst
<1>13. LedgerAgrees'
  <2> SUFFICES ASSUME NEW k \in Keys
               PROVE  Entries(Bucket(k)')
                        = {q.id : q \in {s \in permits' : s.principal = k /\ s.id \notin stopped'}}
    BY DEF LedgerAgrees
  <2>1. Entries(Bucket(k)) = {q.id : q \in {s \in permits : s.principal = k /\ s.id \notin stopped}}
    BY <1>0 DEF LedgerAgrees
  <2>2. CASE k = key
    <3>1. Entries(Bucket(k)') = Entries(Bucket(k)) \ {permit.id}
      BY <1>2, <1>3, <1>5, <2>2
    <3> QED BY <1>0, <1>9, <2>1, <3>1
  <2>3. CASE k # key
    <3>1. Bucket(k)' = Bucket(k)
      BY <1>5, <2>3
    <3> QED BY <1>0, <2>1, <2>3, <3>1
  <2> QED BY <2>2, <2>3
<1>14. CountIsExact'
  <2>1. Active' = Active \ {permit.id}
    BY <1>0, <1>9 DEF Active
  <2>2. Counted = Active /\ Counted' = Active'
    <3>1. Counted = Active
      BY <1>0, CountedIsActive
    <3>2. (TypeOK /\ LedgerAgrees => Counted = Active)'
      BY CountedIsActive, PTL
    <3> QED BY <1>10, <1>13, <3>1, <3>2
  <2>3. Cardinality(Active') = Cardinality(Active) - 1
    BY <1>0, <1>7, <2>1, ActiveIsFinite, FS_RemoveElement
  <2> QED BY <1>0, <1>8, <2>2, <2>3 DEF CountIsExact
<1>15. CeilingsHold'
  <2>1. total' <= MaxTotal
    BY <1>0, <1>8, CeilingsAssumption DEF CeilingsHold, TypeOK
  <2>2. ASSUME NEW k \in Keys, \A q \in Principals : q.key = k => q.distinguishable
        PROVE  Len(Bucket(k)') <= MaxPerPrincipal
    <3>1. Len(Bucket(k)) <= MaxPerPrincipal
      BY <1>0, <2>2 DEF CeilingsHold
    <3>2. CASE k = key
      <4>1. Len(old) \in Nat /\ Len(Bucket(k)') = Len(old) - 1
        BY <1>2, <1>3, <1>5, <3>2, LenProperties
      <4> QED BY <1>2, <3>1, <3>2, <4>1, CeilingsAssumption
    <3>3. CASE k # key
      BY <1>5, <3>1, <3>3
    <3> QED BY <3>2, <3>3
  <2> QED BY <2>1, <2>2 DEF CeilingsHold
<1> QED BY <1>10, <1>11, <1>12, <1>13, <1>14, <1>15 DEF IInv

LEMMA DropEvictedInvariant ==
  ASSUME IInv, NEW permit \in permits, DropEvicted(permit)
  PROVE  IInv'
<1>0. /\ TypeOK /\ HandedOut /\ OldestFirst /\ LedgerAgrees /\ CountIsExact /\ CeilingsHold
      /\ permit.principal \in Keys
      /\ permit.id \notin Entries(Bucket(permit.principal))
      /\ permits' = permits \ {permit}
      /\ UNCHANGED <<total, nextId, perPrincipal, stopped>>
  BY DEF IInv, DropEvicted, TypeOK, Permits
<1>1. permit.id \in stopped
  BY <1>0 DEF LedgerAgrees
<1>2. \A k : Bucket(k)' = Bucket(k)
  BY <1>0 DEF Bucket
<1>3. TypeOK' /\ HandedOut' /\ OldestFirst'
  BY <1>0 DEF TypeOK, HandedOut, OldestFirst
<1>4. LedgerAgrees'
  <2> SUFFICES ASSUME NEW k \in Keys
               PROVE  Entries(Bucket(k)')
                        = {q.id : q \in {s \in permits' : s.principal = k /\ s.id \notin stopped'}}
    BY DEF LedgerAgrees
  <2> QED BY <1>0, <1>1, <1>2 DEF LedgerAgrees
<1>5. CountIsExact' /\ CeilingsHold'
  BY <1>0, <1>2 DEF CountIsExact, Counted, CeilingsHold
<1> QED BY <1>3, <1>4, <1>5 DEF IInv

\* Every step of the governor, and a step of anything else.
LEMMA NextInvariant == IInv /\ [Next]_governorVars => IInv'
<1> SUFFICES ASSUME IInv, [Next]_governorVars PROVE IInv'
  OBVIOUS
<1>1. CASE UNCHANGED governorVars
  BY <1>1 DEF IInv, governorVars, TypeOK, HandedOut, OldestFirst, LedgerAgrees,
              Bucket, CountIsExact, Counted, CeilingsHold
<1>2. CASE \E p \in Principals : Acquire(p)
  BY <1>2, AdmitInvariant, EvictInvariant DEF Acquire
<1>3. CASE \E permit \in permits : DropPermit(permit)
  BY <1>3, ReleaseInvariant, DropEvictedInvariant DEF DropPermit
<1> QED BY <1>1, <1>2, <1>3 DEF Next

(***************************************************************************)
(* Theorems                                                                *)
(***************************************************************************)

\* In every behaviour of the governor the counter is exact, the ledger of
\* permits agrees with the buckets, and the ceilings hold.
THEOREM GovernorInvariant == Spec => []IInv
BY InitInvariant, NextInvariant, PTL DEF Spec

\* `total` never drifts from the number of streams counted, whatever order
\* evictions and drops come in.
THEOREM GovernorCounts == Spec => []CountIsExact
<1>1. IInv => CountIsExact
  BY DEF IInv
<1> QED BY <1>1, GovernorInvariant, PTL

\* The ceilings hold whatever order requests, evictions and drops come in.
THEOREM GovernorCeilings == Spec => []CeilingsHold
<1>1. IInv => CeilingsHold
  BY DEF IInv
<1> QED BY <1>1, GovernorInvariant, PTL

\* The streams one eviction closes: the least id its key has counted, in the
\* step that hands the same key a new one.
LEMMA EvictionStep ==
  ASSUME IInv, [Next]_governorVars, NEW i \in stopped' \ stopped
  PROVE  /\ stopped' = stopped \cup {i}
         /\ nextId' = nextId + 1
         /\ \E p \in permits, q \in permits' \ permits :
              /\ p.id = i
              /\ p.principal = q.principal
              /\ \A older \in permits :
                   older.principal = p.principal /\ older.id < i => older.id \in stopped
<1>1. PICK p \in Principals : Evict(p)
  BY DEF Next, Acquire, DropPermit, Admit, Release, DropEvicted, governorVars
<1> DEFINE old  == Bucket(p.key)
           head == Head(old)
           r    == [id |-> nextId, principal |-> p.key]
<1>2. /\ TypeOK /\ HandedOut /\ OldestFirst /\ LedgerAgrees
      /\ p.key \in Keys
      /\ stopped' = stopped \cup {head}
      /\ nextId' = nextId + 1
      /\ permits' = permits \cup {r}
      /\ r.id = nextId /\ r.principal = p.key
      /\ Len(old) >= MaxPerPrincipal
  BY <1>1 DEF IInv, Evict, HandOut, AtCeiling, Keys
<1>3. i = head
  BY <1>2
<1> HIDE DEF r
<1>4. r \in permits' \ permits
  <2>1. \A q \in permits : q.id < nextId /\ q.id \in Nat
    BY <1>2, IdsAreNat DEF HandedOut, TypeOK, Permits
  <2>2. ~(nextId < nextId)
    BY <1>2 DEF TypeOK
  <2> QED BY <1>2, <2>1, <2>2
<1>5. old \in Seq(Ids) /\ Increasing(old) /\ old # <<>>
  <2>1. Increasing(<<>>)
    BY DEF Increasing
  <2>2. old \in Seq(Ids) /\ Increasing(old)
    BY <1>2, <2>1, BucketType DEF OldestFirst, Bucket
  <2>3. Len(<<>>) = 0 /\ ~(0 >= MaxPerPrincipal)
    BY CeilingsAssumption
  <2> QED BY <1>2, <2>2, <2>3
<1>6. head \in Entries(old) /\ \A x \in Entries(old) : head <= x
  <2> HIDE DEF old
  <2> QED BY <1>5, IdsAreNat, TailEntries
<1>7. PICK q \in permits : q.principal = p.key /\ q.id = head
  BY <1>2, <1>6 DEF LedgerAgrees
<1>8. ASSUME NEW older \in permits, older.principal = p.key, older.id < head,
             older.id \notin stopped
      PROVE  FALSE
  <2>1. older.id \in Entries(old)
    BY <1>2, <1>8 DEF LedgerAgrees
  <2>2. older.id \in Nat /\ head \in Nat
    BY <1>2, <1>7, IdsAreNat DEF TypeOK, Permits
  <2> QED BY <1>6, <1>8, <2>1, <2>2
<1> HIDE DEF head, old
<1> QED BY <1>2, <1>3, <1>4, <1>7, <1>8

\* An eviction closes one stream, its own key's oldest, and never the
\* stream of another key.
THEOREM GovernorEvictsOwnOldest == Spec => EvictsOwnOldest
<1>1. IInv /\ [Next]_governorVars =>
        [\A i \in stopped' \ stopped :
           /\ stopped' = stopped \cup {i}
           /\ nextId' = nextId + 1
           /\ \E p \in permits, q \in permits' \ permits :
                /\ p.id = i
                /\ p.principal = q.principal
                /\ \A older \in permits :
                     older.principal = p.principal /\ older.id < i => older.id \in stopped
        ]_governorVars
  BY EvictionStep
<1> QED BY <1>1, GovernorInvariant, PTL DEF Spec, EvictsOwnOldest

(***************************************************************************)
(* The promise of StreamQuota                                              *)
(***************************************************************************)

\* What the quota sees as open, and how many streams that is.
LEMMA QuotaSees ==
  ASSUME IInv
  PROVE  /\ \A k \in Keys : [j \in Keys |-> Entries(Bucket(j))][k] = Entries(Bucket(k))
         /\ UNION {[j \in Keys |-> Entries(Bucket(j))][k] : k \in DOMAIN [j \in Keys |-> Entries(Bucket(j))]} = Counted
<1> DEFINE open == [j \in Keys |-> Entries(Bucket(j))]
<1>1. DOMAIN open = Keys /\ \A k \in Keys : open[k] = Entries(Bucket(k))
  OBVIOUS
<1> HIDE DEF open
<1>2. ASSUME NEW x \in UNION {open[k] : k \in DOMAIN open} PROVE x \in Counted
  <2>1. PICK k \in Keys : x \in Entries(Bucket(k))
    BY <1>1, <1>2
  <2>2. k \in DOMAIN perPrincipal
    BY <2>1 DEF Bucket, Entries
  <2> QED BY <2>1, <2>2 DEF Bucket, Counted
<1>3. ASSUME NEW x \in Counted PROVE x \in UNION {open[k] : k \in DOMAIN open}
  <2>1. PICK k \in DOMAIN perPrincipal : x \in Entries(perPrincipal[k])
    BY <1>3 DEF Counted
  <2>2. k \in Keys /\ Bucket(k) = perPrincipal[k]
    BY <2>1 DEF IInv, TypeOK, Bucket
  <2> QED BY <1>1, <2>1, <2>2
<1>4. UNION {open[k] : k \in DOMAIN open} = Counted
  BY <1>2, <1>3
<1> QED BY <1>1, <1>4 DEF open

\* An increasing bucket holds as many streams as it is long.
LEMMA AsManyAsLong ==
  ASSUME NEW S \in SUBSET Nat, NEW s \in Seq(S), Increasing(s)
  PROVE  Cardinality(Entries(s)) = Len(s)
<1> DEFINE n == Len(s)
           f == [i \in 1 .. n |-> s[i]]
<1>1. n \in Nat /\ \A i \in 1 .. n : s[i] \in Nat
  BY LenProperties, ElementOfSeq
<1> HIDE DEF n
<1>2. \A i, j \in 1 .. n : s[i] = s[j] => i = j
  BY <1>1 DEF Increasing, n
<1>3. f \in Bijection(1 .. n, Entries(s))
  <2>1. f \in [1 .. n -> Entries(s)]
    BY DEF Entries, n
  <2>2. \A a, b \in 1 .. n : f[a] = f[b] => a = b
    BY <1>2
  <2>3. \A t \in Entries(s) : \E i \in 1 .. n : f[i] = t
    BY DEF Entries, n
  <2> QED BY <2>1, <2>2, <2>3 DEF Bijection, Injection, IsInjective, Surjection
<1>4. ExistsBijection(1 .. n, Entries(s))
  BY <1>3 DEF ExistsBijection
<1>5. Cardinality(Entries(s)) = n
  BY <1>1, <1>4, FS_CountingElements
<1> QED BY <1>5 DEF n

\* The quota counts its sets the same way.
LEMMA QuotaCounts == \A S : Quota!Cardinality(S) = Cardinality(S)
BY DEF Quota!Cardinality, Cardinality, Quota!IsFiniteSet, IsFiniteSet

\* What one bucket is, whether its key is in the map or not.
LEMMA BucketOrder ==
  ASSUME IInv, NEW k \in Keys
  PROVE  Bucket(k) \in Seq(Ids) /\ Increasing(Bucket(k))
<1>1. Increasing(<<>>)
  BY DEF Increasing
<1> QED BY <1>1, BucketType DEF IInv, TypeOK, OldestFirst, Bucket

\* acquire(), as the quota sees it.
LEMMA AcquireOpens ==
  ASSUME IInv, NEW p \in Principals, Acquire(p)
  PROVE  Quota!Open(p)
<1> DEFINE old == Bucket(p.key)
           open == [k \in Keys |-> Entries(Bucket(k))]
           kept == IF p.distinguishable /\ Cardinality(Entries(old)) >= MaxPerPrincipal
                   THEN Entries(old) \ Quota!Oldest(Entries(old)) ELSE Entries(old)
<1>1. p.key \in Keys /\ nextId < MaxStreams /\ nextId' = nextId + 1 /\ total < MaxTotal
  BY DEF Keys, Acquire, Admit, Evict, HandOut
<1>2. old \in Seq(Ids) /\ Increasing(old) /\ \A x \in Entries(old) : x < nextId
  BY <1>1, BucketOrder DEF IInv, LedgerAgrees, HandedOut
<1>3. nextId \in Ids
  BY <1>1, CeilingsAssumption DEF IInv, TypeOK, Ids
<1>4. Cardinality(Entries(old)) = Len(old)
  <2> HIDE DEF old
  <2> QED BY <1>2, IdsAreNat, AsManyAsLong
<1>5. PICK bucket : /\ perPrincipal' = WithBucket(p.key, bucket)
                    /\ Entries(bucket) = kept \cup {nextId}
  <2>1. CASE Admit(p)
    <3>1. ~(p.distinguishable /\ Cardinality(Entries(old)) >= MaxPerPrincipal)
      BY <1>4, <2>1 DEF Admit, AtCeiling
    <3>2. kept = Entries(old)
      BY <3>1
    <3>3. Entries(Append(old, nextId)) = Entries(old) \cup {nextId}
      <4> HIDE DEF old
      <4> QED BY <1>2, <1>3, IdsAreNat, AppendEntries
    <3> HIDE DEF kept
    <3> QED BY <2>1, <3>2, <3>3 DEF Admit
  <2>2. CASE Evict(p)
    <3>1. p.distinguishable /\ Cardinality(Entries(old)) >= MaxPerPrincipal
      BY <1>4, <2>2 DEF Evict, AtCeiling
    <3>2. kept = Entries(old) \ Quota!Oldest(Entries(old))
      BY <3>1
    <3>3. old # <<>>
      <4>1. Len(<<>>) = 0 /\ ~(0 >= MaxPerPrincipal)
        BY CeilingsAssumption
      <4> QED BY <1>4, <3>1, <4>1
    <3>4. /\ Tail(old) \in Seq(Ids)
          /\ Increasing(Tail(old))
          /\ Head(old) \in Entries(old)
          /\ \A x \in Entries(old) : Head(old) <= x
          /\ Entries(Tail(old)) = Entries(old) \ {Head(old)}
      <4> HIDE DEF old
      <4> QED BY <1>2, <3>3, IdsAreNat, TailEntries
    <3>5. Quota!Oldest(Entries(old)) = {Head(old)}
      <4>1. Entries(old) \subseteq Nat
        BY <1>2, IdsAreNat, ElementOfSeq DEF Entries
      <4> QED BY <3>4, <4>1 DEF Quota!Oldest
    <3>6. Entries(Append(Tail(old), nextId)) = Entries(Tail(old)) \cup {nextId}
      <4>1. \A x \in Entries(Tail(old)) : x < nextId
        BY <1>2, <3>4
      <4> DEFINE rest == Tail(old)
      <4> HIDE DEF rest, old
      <4>2. rest \in Seq(Ids) /\ Increasing(rest) /\ \A x \in Entries(rest) : x < nextId
        BY <3>4, <4>1 DEF rest
      <4>3. Entries(Append(rest, nextId)) = Entries(rest) \cup {nextId}
        BY <1>3, <4>2, IdsAreNat, AppendEntries
      <4> QED BY <4>3 DEF rest
    <3> HIDE DEF kept
    <3>7. Entries(Append(Tail(old), nextId)) = kept \cup {nextId}
      BY <3>2, <3>4, <3>5, <3>6
    <3> QED BY <2>2, <3>7 DEF Evict
  <2> QED BY <2>1, <2>2 DEF Acquire
<1>6. \A k : Bucket(k)' = IF k = p.key THEN bucket ELSE Bucket(k)
  BY <1>5, BucketWritten
<1> HIDE DEF kept
<1>7. open' = [open EXCEPT ![p.key] = kept \cup {nextId}]
  <2>1. open' = [k \in Keys |-> IF k = p.key THEN kept \cup {nextId} ELSE Entries(Bucket(k))]
    BY <1>5, <1>6
  <2> QED BY <2>1
<1>8. open[p.key] = Entries(old)
  BY <1>1
<1>9. Cardinality(UNION {open[k] : k \in DOMAIN open}) < MaxTotal
  <2>1. UNION {open[k] : k \in DOMAIN open} = Counted
    BY QuotaSees
  <2>2. Cardinality(Counted) = total
    BY DEF IInv, CountIsExact
  <2> QED BY <1>1, <2>1, <2>2
<1>10. kept = IF p.distinguishable /\ Cardinality(open[p.key]) >= MaxPerPrincipal
              THEN open[p.key] \ Quota!Oldest(open[p.key]) ELSE open[p.key]
  <2> HIDE DEF open, old
  <2> QED BY <1>8 DEF kept
<1>11. open' = [open EXCEPT ![p.key] =
         (IF p.distinguishable /\ Cardinality(@) >= MaxPerPrincipal
          THEN @ \ Quota!Oldest(@) ELSE @) \cup {nextId}]
  <2> HIDE DEF open
  <2> QED BY <1>7, <1>10
<1> QED BY <1>1, <1>9, <1>11, QuotaCounts DEF Quota!Open, Quota!AllOpen

\* A permit dropped: its stream closes, or it was closed by an eviction.
LEMMA DropCloses ==
  ASSUME IInv, NEW permit \in permits, DropPermit(permit)
  PROVE  \/ \E k \in Keys : \E i \in Entries(Bucket(k)) : Quota!Close(k, i)
         \/ UNCHANGED <<[k \in Keys |-> Entries(Bucket(k))], nextId>>
<1> DEFINE key == permit.principal
           open == [k \in Keys |-> Entries(Bucket(k))]
<1>1. key \in Keys
  BY DEF IInv, TypeOK, Permits
<1>2. CASE Release(permit)
  <2> DEFINE old == perPrincipal[key]
  <2>1. PICK i \in 1 .. Len(old) :
          /\ old[i] = permit.id
          /\ perPrincipal' = IF Without(old, i) = <<>>
                             THEN [k \in DOMAIN perPrincipal \ {key} |-> perPrincipal[k]]
                             ELSE WithBucket(key, Without(old, i))
    BY <1>2 DEF Release
  <2>2. Bucket(key) = old /\ old \in Seq(Ids) /\ Increasing(old)
    BY <1>1, <1>2, BucketOrder DEF Release, Bucket
  <2> DEFINE kept == Without(old, i)
  <2>3. Entries(kept) = Entries(old) \ {permit.id} /\ permit.id \in Entries(old)
    <3> HIDE DEF old
    <3>1. Entries(Without(old, i)) = Entries(old) \ {old[i]}
      BY <2>2, IdsAreNat, WithoutEntries
    <3> QED BY <2>1, <3>1 DEF Entries
  <2>4. \A k : Bucket(k)' = IF k = key THEN kept ELSE Bucket(k)
    <3>1. CASE kept = <<>>
      BY <2>1, <3>1 DEF Bucket
    <3>2. CASE kept # <<>>
      BY <2>1, <3>2, BucketWritten
    <3> QED BY <3>1, <3>2
  <2> HIDE DEF kept, old
  <2>5. open' = [open EXCEPT ![key] = Entries(Bucket(key)) \ {permit.id}]
    BY <2>2, <2>3, <2>4
  <2>6. open[key] = Entries(Bucket(key)) /\ permit.id \in open[key]
    BY <1>1, <2>2, <2>3
  <2>7. open' = [open EXCEPT ![key] = @ \ {permit.id}]
    <3> HIDE DEF open
    <3> QED BY <2>5, <2>6
  <2>8. UNCHANGED nextId
    BY <1>2 DEF Release
  <2>9. Quota!Close(key, permit.id)
    BY <2>6, <2>7, <2>8 DEF Quota!Close
  <2>10. permit.id \in Entries(Bucket(key))
    BY <2>2, <2>3
  <2> QED BY <1>1, <2>9, <2>10
<1>3. CASE DropEvicted(permit)
  BY <1>3 DEF DropEvicted, Bucket
<1> QED BY <1>2, <1>3 DEF DropPermit

\* A step of the governor is a step of the quota or invisible to it.
LEMMA NextKeepsQuota ==
  IInv /\ [Next]_governorVars
    => [Quota!Next]_<<[k \in Keys |-> Entries(Bucket(k))], nextId>>
<1> DEFINE open == [k \in Keys |-> Entries(Bucket(k))]
<1> SUFFICES ASSUME IInv, [Next]_governorVars
             PROVE  [Quota!Next]_<<open, nextId>>
  OBVIOUS
<1>1. CASE UNCHANGED governorVars
  BY <1>1 DEF governorVars, Bucket
<1>2. CASE \E p \in Principals : Acquire(p)
  BY <1>2, AcquireOpens DEF Quota!Next
<1>3. CASE \E permit \in permits : DropPermit(permit)
  <2>1. PICK permit \in permits : DropPermit(permit)
    BY <1>3
  <2>2. CASE UNCHANGED <<open, nextId>>
    BY <2>2
  <2>3. CASE \E k \in Keys : \E i \in Entries(Bucket(k)) : Quota!Close(k, i)
    <3>1. PICK k \in Keys : \E j \in Entries(Bucket(k)) : Quota!Close(k, j)
      BY <2>3
    <3>2. PICK i \in Entries(Bucket(k)) : Quota!Close(k, i)
      BY <3>1
    <3>3. k \in DOMAIN open /\ i \in open[k]
      OBVIOUS
    <3> QED BY <3>2, <3>3 DEF Quota!Next
  <2> QED BY <2>1, <2>2, <2>3, DropCloses
<1> QED BY <1>1, <1>2, <1>3 DEF Next

\* The governor implements the quota, with the buckets' ids as the open
\* streams of each key: for any callers, ceilings and number of streams.
THEOREM GovernorKeepsQuota == Spec => KeepsQuota
<1>1. Init => Quota!Init
  <2> SUFFICES ASSUME Init PROVE Quota!Init
    OBVIOUS
  <2>1. \A k : Entries(Bucket(k)) = {}
    BY DEF Init, Bucket, Entries
  <2> QED BY <2>1 DEF Quota!Init, Init, Keys
<1> QED BY <1>1, NextKeepsQuota, GovernorInvariant, PTL DEF Spec, KeepsQuota, Quota!Spec, Quota!quotaVars

-----------------------------------------------------------------------------
(***************************************************************************)
(* The routes                                                              *)
(***************************************************************************)

\* The streams are those the governor has handed an id to.
Numbered ==
  /\ nextId \in Nat
  /\ Streams = 0 .. nextId - 1

ServiceInv == Numbered /\ TasksHoldPermits

(***************************************************************************)
(* The service is a user of the governor                                   *)
(***************************************************************************)

\* Every step is an acquire, the drop of a permit, or not the governor's.
LEMMA ServiceStep == [ServiceNext]_vars => [Next]_governorVars
<1> SUFFICES ASSUME [ServiceNext]_vars PROVE [Next]_governorVars
  OBVIOUS
<1>1. ASSUME NEW i, DropPermit(PermitOf(i)) PROVE Next
  <2>1. PermitOf(i) \in permits
    BY <1>1 DEF DropPermit, Release, DropEvicted
  <2> QED BY <1>1, <2>1 DEF Next
<1>2. ASSUME NEW kind \in Kinds, NEW c \in Callers, NEW cluster \in Clusters,
             Open(kind, c, cluster)
      PROVE  Next
  BY <1>2, ChargesAssumption DEF Open, Next
<1>3. ASSUME NEW i \in Streams, Handler(i) PROVE [Next]_governorVars
  <2>1. CASE StartMessages(i) \/ StartAnalysis(i)
    BY <2>1 DEF StartMessages, StartAnalysis
  <2>2. CASE FilterRefused(i) \/ AnalysisRefused(i)
    BY <1>1, <2>2 DEF FilterRefused, AnalysisRefused
  <2> QED BY <1>3, <2>1, <2>2 DEF Handler
<1>4. ASSUME NEW i \in Streams, Task(i) PROVE [Next]_governorVars
  <2>1. CASE Latched(i) \/ TimesOut(i) \/ Finishes(i) \/ FreeSlot(i)
    BY <2>1 DEF Latched, TimesOut, Finishes, FreeSlot
  <2>2. CASE FreePermit(i)
    BY <1>1, <2>2 DEF FreePermit
  <2> QED BY <1>4, <2>1, <2>2 DEF Task
<1>5. CASE Stop \/ \E i \in Streams : ReaderLeaves(i)
  BY <1>5 DEF Stop, ReaderLeaves
<1>6. CASE UNCHANGED vars
  BY <1>6 DEF vars
<1> QED BY <1>2, <1>3, <1>4, <1>5, <1>6 DEF ServiceNext

\* The routes implement the governor: whatever is proved of every behaviour
\* of it holds of the service.
THEOREM ServiceUsesGovernor == ServiceSafety => Spec
BY ServiceStep, PTL DEF ServiceSafety, ServiceInit, Spec

(***************************************************************************)
(* Permits and tasks                                                       *)
(***************************************************************************)

\* A stream that changes its state and is still alive keeps its permit.
LEMMA MovesAlive ==
  ASSUME ServiceInv, NEW i \in Streams, Live(i),
         NEW s \in States \ {"released"}, Moves(i, s), UNCHANGED governorVars
  PROVE  ServiceInv'
<1>1. /\ Streams' = Streams
      /\ \A j \in Streams : /\ PermitOf(j)' = PermitOf(j)
                            /\ Live(j)' <=> Live(j)
  BY DEF Moves, Streams, PermitOf, Live
<1>2. TasksHoldPermits'
  BY <1>1 DEF ServiceInv, TasksHoldPermits, governorVars
<1>3. Numbered'
  BY <1>1 DEF ServiceInv, Numbered, governorVars
<1> QED BY <1>2, <1>3 DEF ServiceInv

\* A stream that ends drops its own permit and no other.
LEMMA MovesReleased ==
  ASSUME ServiceInv, NEW i \in Streams, Moves(i, "released"), DropPermit(PermitOf(i))
  PROVE  ServiceInv'
<1>1. permits' = permits \ {PermitOf(i)} /\ nextId' = nextId
  BY DEF DropPermit, Release, DropEvicted
<1>2. /\ Streams' = Streams
      /\ \A j \in Streams : /\ PermitOf(j)' = PermitOf(j)
                            /\ Live(j)' <=> (Live(j) /\ j # i)
  BY DEF Moves, Streams, PermitOf, Live
<1>3. \A j \in Streams : PermitOf(j) = PermitOf(i) => j = i
  BY DEF PermitOf
<1>4. TasksHoldPermits'
  BY <1>1, <1>2, <1>3 DEF ServiceInv, TasksHoldPermits
<1>5. Numbered'
  BY <1>1, <1>2 DEF ServiceInv, Numbered
<1> QED BY <1>4, <1>5 DEF ServiceInv

LEMMA OpenInvariant ==
  ASSUME ServiceInv, NEW kind, NEW c, NEW cluster, Open(kind, c, cluster)
  PROVE  ServiceInv'
<1>1. PICK n : n = nextId
  OBVIOUS
<1>2. /\ permits' = permits \cup {[id |-> n, principal |-> ChargedTo(kind, c).key]}
      /\ nextId' = n + 1
  BY <1>1 DEF Open, Acquire, Admit, Evict, HandOut
<1>3. Streams' = Streams \cup {n} /\ n \notin Streams
  BY <1>1 DEF Open, Streams, ServiceInv, Numbered
<1>4. stream'[n] = [kind |-> kind, caller |-> c, cluster |-> cluster, state |-> "admitted"]
  BY <1>1 DEF Open
<1>5. PermitOf(n)' = [id |-> n, principal |-> ChargedTo(kind, c).key] /\ Live(n)'
  BY <1>3, <1>4 DEF PermitOf, Live
<1>6. \A j \in Streams : PermitOf(j)' = PermitOf(j) /\ (Live(j)' <=> Live(j))
  BY <1>1, <1>3 DEF Open, PermitOf, Live, Streams
<1>7. TasksHoldPermits'
  BY <1>2, <1>3, <1>5, <1>6 DEF ServiceInv, TasksHoldPermits
<1>8. Numbered'
  BY <1>1, <1>2, <1>3 DEF ServiceInv, Numbered
<1> QED BY <1>7, <1>8 DEF ServiceInv

LEMMA ServiceNextInvariant == ServiceInv /\ [ServiceNext]_vars => ServiceInv'
<1> SUFFICES ASSUME ServiceInv, [ServiceNext]_vars PROVE ServiceInv'
  OBVIOUS
<1>1. CASE \E kind \in Kinds, c \in Callers, cluster \in Clusters : Open(kind, c, cluster)
  BY <1>1, OpenInvariant
<1>2. ASSUME NEW i \in Streams, Handler(i) PROVE ServiceInv'
  <2>1. CASE StartMessages(i) \/ StartAnalysis(i)
    <3>1. Live(i) /\ Moves(i, "running") /\ UNCHANGED governorVars
      BY <2>1 DEF StartMessages, StartAnalysis, InState, Live
    <3> QED BY <3>1, MovesAlive DEF States
  <2>2. CASE FilterRefused(i) \/ AnalysisRefused(i)
    BY <2>2, MovesReleased DEF FilterRefused, AnalysisRefused
  <2> QED BY <1>2, <2>1, <2>2 DEF Handler
<1>3. ASSUME NEW i \in Streams, Task(i) PROVE ServiceInv'
  <2>1. CASE Latched(i) \/ TimesOut(i) \/ Finishes(i)
    <3>1. Live(i) /\ Moves(i, "ending") /\ UNCHANGED governorVars
      BY <2>1 DEF Latched, TimesOut, Finishes, ReaderGone, ShutdownArm, EvictedArm,
                  LifetimeArm, PumpReturns, InState, Live
    <3> QED BY <3>1, MovesAlive DEF States
  <2>2. CASE FreeSlot(i)
    <3>1. Live(i) /\ Moves(i, "slotFreed") /\ UNCHANGED governorVars
      BY <2>2 DEF FreeSlot, InState, Live
    <3> QED BY <3>1, MovesAlive DEF States
  <2>3. CASE FreePermit(i)
    BY <2>3, MovesReleased DEF FreePermit
  <2> QED BY <1>3, <2>1, <2>2, <2>3 DEF Task
<1>4. CASE Stop \/ (\E i \in Streams : ReaderLeaves(i)) \/ UNCHANGED vars
  <2>1. UNCHANGED <<permits, nextId, stream>>
    BY <1>4 DEF Stop, ReaderLeaves, vars, governorVars, serviceVars
  <2> QED BY <2>1 DEF ServiceInv, Numbered, TasksHoldPermits, Streams, PermitOf, Live
<1> QED BY <1>1, <1>2, <1>3, <1>4 DEF ServiceNext

(***************************************************************************)
(* Theorems                                                                *)
(***************************************************************************)

\* No early return and no ended task keeps a permit, and nothing is served
\* without one, for any callers and clusters and however streams interleave.
THEOREM ServiceHoldsPermits == ServiceSafety => []TasksHoldPermits
<1>1. ServiceInit => ServiceInv
  <2> SUFFICES ASSUME ServiceInit PROVE ServiceInv
    OBVIOUS
  <2>1. Streams = {} /\ permits = {} /\ nextId = 0
    BY DEF ServiceInit, Init, Streams
  <2> QED BY <2>1 DEF ServiceInv, Numbered, TasksHoldPermits
<1>2. ServiceInv => TasksHoldPermits
  BY DEF ServiceInv
<1> QED BY <1>1, <1>2, ServiceNextInvariant, PTL DEF ServiceSafety

\* Under the two routes the count of open streams is exact.
THEOREM ServiceCounts == ServiceSafety => []CountIsExact
BY ServiceUsesGovernor, GovernorCounts, PTL

\* Under the two routes no ceiling is passed.
THEOREM ServiceCeilings == ServiceSafety => []CeilingsHold
BY ServiceUsesGovernor, GovernorCeilings, PTL

\* The two routes keep the promise of StreamQuota.
THEOREM ServiceKeepsQuota == ServiceSafety => KeepsQuota
BY ServiceUsesGovernor, GovernorKeepsQuota, PTL
=============================================================================
