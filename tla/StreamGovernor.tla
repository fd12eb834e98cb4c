--------------------------- MODULE StreamGovernor ---------------------------
(***************************************************************************)
(* The open-stream count of one kaas-ui process                            *)
(* (crates/kaas-ui-api/src/streaming.rs): `acquire` takes a slot for a     *)
(* caller, closing the caller's own oldest stream when it is at its        *)
(* ceiling, and dropping a `StreamPermit` gives the slot back.  Both run   *)
(* under one mutex, so each is a single action here.                       *)
(*                                                                         *)
(* A stream is its id, which is what a `Live` entry and a permit carry.    *)
(* `next_id` wraps at 2^64 in the code; here MaxStreams bounds it.         *)
(***************************************************************************)
EXTENDS Naturals, Sequences, FiniteSets

CONSTANTS
  Principals,       \* what requests are charged to: [key, distinguishable]
  MaxPerPrincipal,  \* MAX_PER_PRINCIPAL
  MaxTotal,         \* MAX_TOTAL
  MaxStreams        \* bound of the model: acquisitions in one behaviour

ASSUME PrincipalsAssumption ==
  \A p \in Principals : p.distinguishable \in BOOLEAN
ASSUME CeilingsAssumption ==
  /\ MaxPerPrincipal \in Nat \ {0}
  /\ MaxTotal \in Nat \ {0}
  /\ MaxStreams \in Nat

Keys == {p.key : p \in Principals}
Ids  == 0 .. MaxStreams - 1

VARIABLES
  total,         \* GovernorState.total
  nextId,        \* GovernorState.next_id
  perPrincipal,  \* GovernorState.per_principal: key -> ids, oldest first
  permits,       \* the StreamPermits that have not been dropped
  stopped        \* the ids whose eviction latch has been tripped

governorVars == <<total, nextId, perPrincipal, permits, stopped>>

Permits == [id : Ids, principal : Keys]

(***************************************************************************)
(* Operators                                                               *)
(***************************************************************************)
Entries(s) == {s[i] : i \in 1 .. Len(s)}

\* BTreeMap::entry(key).or_default()
Bucket(key) == IF key \in DOMAIN perPrincipal THEN perPrincipal[key] ELSE <<>>

WithBucket(key, bucket) ==
  [k \in DOMAIN perPrincipal \cup {key} |->
     IF k = key THEN bucket ELSE perPrincipal[k]]

AtCeiling(p) ==
  p.distinguishable /\ Len(Bucket(p.key)) >= MaxPerPrincipal

Increasing(s) == \A i, j \in 1 .. Len(s) : i < j => s[i] < s[j]

\* VecDeque::remove
Without(s, i) == SubSeq(s, 1, i - 1) \o SubSeq(s, i + 1, Len(s))

\* What the governor is still counting, for one key and overall.
Counted == UNION {Entries(perPrincipal[k]) : k \in DOMAIN perPrincipal}

(***************************************************************************)
(* Actions                                                                 *)
(***************************************************************************)
Init ==
  /\ total = 0
  /\ nextId = 0
  /\ perPrincipal = [k \in {} |-> <<>>]
  /\ permits = {}
  /\ stopped = {}

HandOut(p) ==
  /\ nextId < MaxStreams
  /\ nextId' = nextId + 1
  /\ permits' = permits \cup {[id |-> nextId, principal |-> p.key]}

\* acquire(), where the caller is below its ceiling or has none.
Admit(p) ==
  /\ total < MaxTotal
  /\ ~AtCeiling(p)
  /\ HandOut(p)
  /\ perPrincipal' = WithBucket(p.key, Append(Bucket(p.key), nextId))
  /\ total' = total + 1
  /\ UNCHANGED stopped

\* Mutant of Evict: the caller's ceiling is looked at before the process's, so a
\* full process still trades an old stream for a new one.
EvictWhenFull(p) ==
  /\ AtCeiling(p)
  /\ HandOut(p)
  /\ perPrincipal' = WithBucket(p.key, Append(Tail(Bucket(p.key)), nextId))
  /\ stopped' = stopped \cup {Head(Bucket(p.key))}
  /\ UNCHANGED total

\* acquire(), where the caller's oldest stream makes room: it leaves the
\* count now, not when its own task gets round to dropping the permit.
Evict(p) ==
  /\ total < MaxTotal
  /\ AtCeiling(p)
  /\ HandOut(p)
  /\ perPrincipal' = WithBucket(p.key, Append(Tail(Bucket(p.key)), nextId))
  /\ stopped' = stopped \cup {Head(Bucket(p.key))}
  /\ total' = (IF total = 0 THEN 0 ELSE total - 1) + 1

Acquire(p) == Admit(p) \/ Evict(p)

\* Drop for StreamPermit, of a stream the governor still counts.
Release(permit) ==
  /\ permit \in permits
  /\ permit.principal \in DOMAIN perPrincipal
  /\ \E i \in 1 .. Len(perPrincipal[permit.principal]) :
       LET kept == Without(perPrincipal[permit.principal], i)
       IN /\ perPrincipal[permit.principal][i] = permit.id
          /\ perPrincipal' =
               IF kept = <<>>
               THEN [k \in DOMAIN perPrincipal \ {permit.principal} |-> perPrincipal[k]]
               ELSE WithBucket(permit.principal, kept)
  /\ total' = IF total = 0 THEN 0 ELSE total - 1
  /\ permits' = permits \ {permit}
  /\ UNCHANGED <<nextId, stopped>>

\* Mutant of DropEvicted: the count is corrected a second time.
DropEvictedTwice(permit) ==
  /\ permit \in permits
  /\ permit.id \notin Entries(Bucket(permit.principal))
  /\ total' = IF total = 0 THEN 0 ELSE total - 1
  /\ permits' = permits \ {permit}
  /\ UNCHANGED <<nextId, perPrincipal, stopped>>

\* Drop for StreamPermit, of a stream that was evicted: the count has
\* already been corrected, so nothing is subtracted a second time.
DropEvicted(permit) ==
  /\ permit \in permits
  /\ permit.id \notin Entries(Bucket(permit.principal))
  /\ permits' = permits \ {permit}
  /\ UNCHANGED <<total, nextId, perPrincipal, stopped>>

DropPermit(permit) == Release(permit) \/ DropEvicted(permit)

Next ==
  \/ \E p \in Principals : Acquire(p)
  \/ \E permit \in permits : DropPermit(permit)

Spec == Init /\ [][Next]_governorVars

-----------------------------------------------------------------------------
(***************************************************************************)
(* Properties                                                              *)
(***************************************************************************)

\* The state has its type: buckets hold ids already handed out, and a key
\* stays in the map only while a stream of it is counted.
TypeOK ==
  /\ total \in Nat
  /\ nextId \in 0 .. MaxStreams
  /\ DOMAIN perPrincipal \subseteq Keys
  /\ \A k \in DOMAIN perPrincipal : perPrincipal[k] \in Seq(Ids) \ {<<>>}
  /\ permits \subseteq Permits
  /\ stopped \subseteq Ids

\* `total` is the number of streams the buckets hold: no interleaving of
\* evictions with the drops of evicted and live permits makes the count
\* drift (the comment in Drop for StreamPermit).
CountIsExact == total = Cardinality(Counted)

\* The permits still held are exactly the counted streams and the evicted
\* ones, each under the key it was charged to: no stream holds a slot
\* without a permit that will free it, and none is freed while it is served.
LedgerAgrees ==
  \A k \in Keys :
    Entries(Bucket(k)) = {p.id : p \in {q \in permits : q.principal = k /\ q.id \notin stopped}}

\* Buckets are oldest first, so the front of one is the stream an eviction
\* should close.
OldestFirst == \A k \in DOMAIN perPrincipal : Increasing(perPrincipal[k])

\* An id is handed out once, and a latch is tripped only for one of them.
HandedOut ==
  /\ \A p \in permits : p.id < nextId
  /\ \A p, q \in permits : p.id = q.id => p = q
  /\ \A i \in stopped : i < nextId

\* The process never counts more than MAX_TOTAL streams, and a caller that
\* every request under its key distinguishes never more than
\* MAX_PER_PRINCIPAL.
CeilingsHold ==
  /\ total <= MaxTotal
  /\ \A k \in Keys :
       (\A p \in Principals : p.key = k => p.distinguishable)
         => Len(Bucket(k)) <= MaxPerPrincipal

\* An eviction closes one stream, the oldest its own key still has counted,
\* and only in the step that gives the same key a newer stream.
EvictsOwnOldest ==
  [][\A i \in stopped' \ stopped :
       /\ stopped' = stopped \cup {i}
       /\ nextId' = nextId + 1
       /\ \E p \in permits, q \in permits' \ permits :
            /\ p.id = i
            /\ p.principal = q.principal
            /\ \A older \in permits :
                 older.principal = p.principal /\ older.id < i => older.id \in stopped
    ]_governorVars

Quota == INSTANCE StreamQuota WITH
  open   <- [k \in Keys |-> Entries(Bucket(k))],
  opened <- nextId

\* The governor keeps the promise of StreamQuota: every acquire and every
\* drop is an Open, a Close or (the drop of an evicted stream's permit)
\* nothing at all.
KeepsQuota == Quota!Spec

\* The inductive invariant the proofs rest on.
IInv ==
  /\ TypeOK
  /\ HandedOut
  /\ OldestFirst
  /\ LedgerAgrees
  /\ CountIsExact
  /\ CeilingsHold

=============================================================================
