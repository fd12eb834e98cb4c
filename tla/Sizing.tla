------------------------------- MODULE Sizing -------------------------------
(***************************************************************************)
(* The sizing advice of kaas-ui-core/src/sizing: what a topic's            *)
(* configuration implies (lint.rs), which profile its measurement points   *)
(* at, and what that profile recommends (advice.rs).                       *)
(*                                                                         *)
(* Sizes are MiB, times minutes, rates MiB a minute and ratios percent.    *)
(* A topic is [streams, partitions, replicas, brokers, sizes, cleanup,     *)
(* compressed, retention, retentionBytes, segment, roll, rollSet, index,   *)
(* interval, minInsync, dirty], where sizes is the sequence of the         *)
(* partitions' bytes on their leaders, and a measurement [mean, peak,      *)
(* small, distinct].  What a broker does not report is Unset, and a limit  *)
(* is none unless it is above zero.                                         *)
(***************************************************************************)
EXTENDS Integers, Sequences, FiniteSets, FiniteSetsExt

CONSTANT Unset

(***************************************************************************)
(* Assumptions::default and the format of the offset index                 *)
(***************************************************************************)
Produce         == 600    \* a partition's, 10 MiB a second
Consume         == 300    \* a consumer's
Headroom        == 150
PerRetention    == 24
FewPerRetention == 8      \* of a topic of high throughput
CompactedRoll   == 60
Overshoot       == 10
SmallestSegment == 16
Replication     == 3
BurstRatio      == 1000
HighThroughput  == 300
ShortRetention  == 1440
IndexEntry      == 8
SkewFactor      == 2

AtMostOf(a, b)  == IF a < b THEN a ELSE b
AtLeastOf(a, b) == IF a < b THEN b ELSE a

Limit(value) == IF value = Unset THEN Unset ELSE IF value > 0 THEN value ELSE Unset

Deletes(topic)  == "delete" \in topic.cleanup
Compacts(topic) == "compact" \in topic.cleanup

IndexCeiling(topic) ==
  IF Unset \in {Limit(topic.index), Limit(topic.interval)} THEN Unset
  ELSE Limit((topic.index \div IndexEntry) * topic.interval)

(***************************************************************************)
(* The lint                                                                *)
(***************************************************************************)
\* Partitions that have not filled one segment: an empty one shows nothing.
Stuck(topic) ==
  IF Unset \in {topic.sizes, Limit(topic.segment)} THEN {}
  ELSE {p \in DOMAIN topic.sizes : topic.sizes[p] > 0 /\ topic.sizes[p] < topic.segment}

RetentionOutlivesItsSegment(topic) ==
  /\ Deletes(topic)
  /\ Unset \notin {Limit(topic.retention), Limit(topic.roll)}
  /\ topic.roll >= topic.retention

RetentionBytesSmallerThanSegment(topic) ==
  /\ Deletes(topic)
  /\ Unset \notin {Limit(topic.retentionBytes), Limit(topic.segment)}
  /\ topic.segment >= topic.retentionBytes

NoRetentionAtAll(topic) ==
  /\ Deletes(topic) /\ ~Compacts(topic)
  /\ {topic.retention, topic.retentionBytes} # {Unset}
  /\ {Limit(topic.retention), Limit(topic.retentionBytes)} = {Unset}

CompactedTailNeverCleaned(topic) ==
  /\ Compacts(topic) /\ Limit(topic.roll) # Unset
  /\ Stuck(topic) # {} \/ (topic.sizes = Unset /\ ~topic.rollSet)

SegmentAboveIndexCeiling(topic) ==
  /\ Unset \notin {Limit(topic.segment), IndexCeiling(topic)}
  /\ topic.segment > IndexCeiling(topic)

Total(sizes) == MapThenSumSet(LAMBDA p : sizes[p], DOMAIN sizes)

SkewedPartitions(topic) ==
  /\ topic.sizes # Unset
  /\ Len(topic.sizes) >= 2 /\ Total(topic.sizes) > 0
  /\ \E p \in DOMAIN topic.sizes : topic.sizes[p] * Len(topic.sizes) > Total(topic.sizes) * SkewFactor

Diagnostics(topic) ==
  {code \in {"RetentionOutlivesItsSegment", "RetentionBytesSmallerThanSegment", "NoRetentionAtAll",
             "CompactedTailNeverCleaned", "SegmentAboveIndexCeiling", "SkewedPartitions"} :
     \/ code = "RetentionOutlivesItsSegment" /\ RetentionOutlivesItsSegment(topic)
     \/ code = "RetentionBytesSmallerThanSegment" /\ RetentionBytesSmallerThanSegment(topic)
     \/ code = "NoRetentionAtAll" /\ NoRetentionAtAll(topic)
     \/ code = "CompactedTailNeverCleaned" /\ CompactedTailNeverCleaned(topic)
     \/ code = "SegmentAboveIndexCeiling" /\ SegmentAboveIndexCeiling(topic)
     \/ code = "SkewedPartitions" /\ SkewedPartitions(topic)}

(***************************************************************************)
(* The profile the signals point at                                        *)
(***************************************************************************)
\* A deadline for deletion that neither roll meets.
PrecisionRisk(topic, measured) ==
  LET window     == Limit(topic.retention)
      partitions == IF topic.sizes = Unset THEN 1 ELSE AtLeastOf(Len(topic.sizes), 1)
  IN  /\ Deletes(topic) /\ window # Unset
      /\ window <= ShortRetention
      /\ Limit(topic.segment) # Unset /\ measured.mean # Unset
      /\ measured.mean > 0 /\ topic.segment * partitions > measured.mean * window
      /\ Limit(topic.roll) # Unset /\ topic.roll >= window

Bursty(measured) ==
  /\ Unset \notin {measured.mean, measured.peak}
  /\ measured.mean > 0 /\ measured.peak * 100 >= BurstRatio * measured.mean

Busy(topic, measured) ==
  \/ measured.peak # Unset /\ measured.peak >= HighThroughput
  \/ topic.compressed /\ measured.small

Suggested(topic, measured) ==
  IF topic.streams THEN "StreamsInternal"
  ELSE IF Compacts(topic) THEN "CompactedChangelog"
  ELSE IF PrecisionRisk(topic, measured) THEN "RetentionPrecision"
  ELSE IF Bursty(measured) THEN "Bursty"
  ELSE IF Busy(topic, measured) THEN "HighThroughput"
  ELSE "Balanced"

(***************************************************************************)
(* What a profile recommends: a row is [now, want, change], and one that   *)
(* is to be kept or reviewed is nobody's to carry out.                     *)
(***************************************************************************)
Row(now, want) ==
  [ now |-> now, want |-> want,
    change |-> IF Unset \in {now, want} \/ now = want THEN "keep"
               ELSE IF want > now THEN "increase" ELSE "decrease" ]

Kept(row) == [row EXCEPT !.change = "keep"]

ReplicationRow(topic) ==
  LET target == AtLeastOf(AtMostOf(Replication, AtLeastOf(topic.brokers, 1)), 1)
      row    == Row(topic.replicas, target)
  IN  IF topic.brokers = 0 \/ topic.replicas >= target THEN Kept(row) ELSE row

\* partitions_for: rounded up.
PartitionsFor(rate, capacity, headroom) ==
  AtLeastOf((rate * headroom + 100 * capacity - 1) \div (100 * capacity), 1)

\* A count that throughput does not decide is left; a count is only raised, and
\* what would do with less is only said to a topic of high throughput.
PartitionsRow(profile, topic, measured) ==
  LET now  == AtLeastOf(topic.partitions, 1)
      need == CASE profile = "LowLatency"     -> PartitionsFor(measured.peak, Consume, Headroom)
                [] profile = "HighThroughput" -> PartitionsFor(measured.peak, Produce, 100)
                [] OTHER                      -> PartitionsFor(measured.peak, Produce, Headroom)
  IN  IF profile \in {"CompactedChangelog", "StreamsInternal", "RetentionPrecision"} THEN Row(now, now)
      ELSE IF measured.peak = Unset THEN Row(now, Unset)
      ELSE IF profile = "HighThroughput" THEN Row(now, need)
      ELSE Row(now, AtLeastOf(need, now))

\* Mutant of Roll: a topic without a profile rolls once in its window.
RollOnce(profile, topic) ==
  LET window == Limit(topic.retention)
      part(n) == IF window = Unset THEN Unset ELSE AtLeastOf(window \div n, 1)
  IN  CASE profile \in {"CompactedChangelog", "StreamsInternal"} -> CompactedRoll
        [] profile = "RetentionPrecision" -> part(Overshoot)
        [] profile = "HighThroughput"     -> part(FewPerRetention)
        [] OTHER                          -> part(1)

\* How long a segment may stay open.
Roll(profile, topic) ==
  LET window == Limit(topic.retention)
      part(n) == IF window = Unset THEN Unset ELSE AtLeastOf(window \div n, 1)
  IN  CASE profile \in {"CompactedChangelog", "StreamsInternal"} -> CompactedRoll
        [] profile = "RetentionPrecision" -> part(Overshoot)
        [] profile = "HighThroughput"     -> part(FewPerRetention)
        [] OTHER                          -> part(PerRetention)

\* round_to_power_of_two: at or below the size, and never below the floor.
PowerOfTwo(size) ==
  IF size <= SmallestSegment THEN SmallestSegment
  ELSE AtLeastOf(CHOOSE power \in {2^i : i \in 0 .. 30} : power <= size /\ size < 2 * power, SmallestSegment)

\* What a partition is written during a roll, as far as its index reaches.
SegmentFromRate(bytes, ceiling) ==
  IF ceiling = Unset THEN PowerOfTwo(bytes)
  ELSE AtLeastOf(AtMostOf(PowerOfTwo(bytes), ceiling), AtMostOf(SmallestSegment, ceiling))

SegmentBytes(profile, topic, measured) ==
  LET rate == IF profile = "Bursty" THEN measured.mean ELSE measured.peak
      roll == Roll(profile, topic)
  IN  IF Unset \in {rate, roll} THEN Unset
      ELSE SegmentFromRate((rate * roll) \div AtLeastOf(topic.partitions, 1), IndexCeiling(topic))

DirtyRow(profile, topic, measured) ==
  IF profile \notin {"CompactedChangelog", "StreamsInternal"} \/ measured.distinct = Unset
  THEN Row(topic.dirty, Unset)
  ELSE IF measured.distinct < 50 THEN [Row(topic.dirty, 10) EXCEPT !.change = "decrease"]
  ELSE Row(topic.dirty, topic.dirty)

MinInsyncRow(profile, topic) ==
  IF profile \notin {"LowLatency", "RetentionPrecision", "CompactedChangelog"} THEN Row(topic.minInsync, Unset)
  ELSE IF topic.minInsync # Unset /\ topic.minInsync >= 2 THEN Kept(Row(topic.minInsync, 2))
  ELSE Row(topic.minInsync, 2)

(***************************************************************************)
(* Following the advice                                                    *)
(***************************************************************************)
CarriedOut(row) == IF row.change = "keep" THEN row.now ELSE row.want

\* The rows of the profile the page opens on; nobody can lower a partition
\* count.
Followed(topic, measured) ==
  LET profile    == Suggested(topic, measured)
      partitions == PartitionsRow(profile, topic, measured)
  IN  [topic EXCEPT
        !.replicas   = CarriedOut(ReplicationRow(topic)),
        !.partitions = IF partitions.change = "increase" THEN partitions.want ELSE @,
        !.segment    = CarriedOut(Row(@, SegmentBytes(profile, topic, measured))),
        !.roll       = CarriedOut(Row(@, Roll(profile, topic))),
        !.rollSet    = @ \/ Row(topic.roll, Roll(profile, topic)).change # "keep",
        !.dirty      = CarriedOut(DirtyRow(profile, topic, measured)),
        !.minInsync  = CarriedOut(MinInsyncRow(profile, topic))]

\* The shortest a segment can be told to stay open.
ShortestRoll(topic) == IF topic.streams \/ Compacts(topic) THEN CompactedRoll ELSE 1

\* Who follows the advice for a topic, and then the advice for what it has
\* become (another profile may be suggested, and more partitions make smaller
\* segments), has after three times a topic the advice leaves alone, and not
\* two profiles that undo each other.  The lint then does not say that
\* records outlive their retention, nor that a segment it could size is larger
\* than its index reaches, nor anything it did not say before, but for what a
\* larger segment does to a limit in bytes and to a compacted tail.  Premise:
\* the retention is none, or longer than the shortest roll there is.
AdviceStands(topic, measured) ==
  LET settled == Followed(Followed(Followed(topic, measured), measured), measured)
      sized   == SegmentBytes(Suggested(settled, measured), settled, measured) # Unset
      cured   == {"RetentionOutlivesItsSegment"} \cup (IF sized THEN {"SegmentAboveIndexCeiling"} ELSE {})
      worse   == {"RetentionBytesSmallerThanSegment", "CompactedTailNeverCleaned"}
  IN  /\ Followed(settled, measured) = settled
      /\ (Limit(topic.retention) = Unset \/ topic.retention > ShortestRoll(topic)) =>
           /\ ~PrecisionRisk(settled, measured)
           /\ Diagnostics(settled) \subseteq (Diagnostics(topic) \ cured) \cup worse
=============================================================================
