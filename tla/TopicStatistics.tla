--------------------------- MODULE TopicStatistics ---------------------------
(***************************************************************************)
(* What a topic analysis adds up: the size sketches and the accumulators   *)
(* of kaas-ui-core/src/analysis.rs.                                        *)
(*                                                                         *)
(* A record is [partition, time, key, value]: its timestamp, below zero    *)
(* when it has none, and the sizes of its key and value or Absent.  The    *)
(* cardinality sketches are estimates and left out.                        *)
(***************************************************************************)
EXTENDS Integers, Sequences, FiniteSets, FiniteSetsExt, SequencesExt

CONSTANTS
  SubBits,   \* SIZE_SUB_BITS: each power of two is this many bits of buckets
  MaxHours,  \* MAX_HOURLY_BUCKETS
  NoSize     \* no key, no value

ASSUME SubBitsIsNatural == SubBits \in Nat
ASSUME MaxHoursIsNatural == MaxHours \in Nat

(***************************************************************************)
(* Size sketches                                                           *)
(***************************************************************************)
Octave(value) == CHOOSE o \in 0 .. value : 2^o <= value /\ value < 2^(o + 1)

SizeBucket(value) ==
  IF value < 2^SubBits THEN value
  ELSE LET o == Octave(value)
       IN  (o - SubBits + 1) * 2^SubBits + ((value \div 2^(o - SubBits)) % 2^SubBits)

\* The middle of the bucket.
Representative(bucket) ==
  IF bucket < 2^SubBits THEN bucket
  ELSE LET o     == (bucket \div 2^SubBits) + SubBits - 1
           width == 2^(o - SubBits)
       IN  2^o + ((bucket % 2^SubBits) * width) + width \div 2

\* The sketch of the sizes offered: the buckets, and what is kept exactly.
Sketch(sizes) ==
  [ count   |-> Len(sizes),
    min     |-> Min(ToSet(sizes)),
    max     |-> Max(ToSet(sizes)),
    buckets |-> FoldLeft(LAMBDA held, size :
                           LET b == SizeBucket(size)
                           IN  [x \in DOMAIN held \cup {b} |->
                                  (IF x \in DOMAIN held THEN held[x] ELSE 0) + (IF x = b THEN 1 ELSE 0)],
                         [x \in {} |-> 0], sizes) ]

AtLeast(a, b) == IF a < b THEN b ELSE a
AtMost(a, b)  == IF a < b THEN a ELSE b

\* The rank a quantile is at, rounded up, and at least the first.
Rank(sketch, permille) ==
  AtMost(AtLeast((permille * sketch.count + 999) \div 1000, 1), sketch.count)

\* The middle of the first bucket that the rank is not beyond, within what was
\* really seen.
Quantile(sketch, permille) ==
  LET upTo(b)  == MapThenSumSet(LAMBDA x : sketch.buckets[x], {x \in DOMAIN sketch.buckets : x <= b})
      reaching == {b \in DOMAIN sketch.buckets : upTo(b) >= Rank(sketch, permille)}
  IN  AtMost(AtLeast(Representative(Min(reaching)), sketch.min), sketch.max)

Reported == {500, 750, 950, 990, 999}

\* The sizes of one bucket lie within its width.
Width(size) == IF size < 2^SubBits THEN 1 ELSE 2^(Octave(size) - SubBits)

\* Sizes of which the buckets are wider than the error the code states: the
\* lower five of an octave's eight, from sixteen bytes on, whose middle may be
\* up to a sixteenth away.
WiderThanStated(size) == 25 * (Width(size) \div 2) > size - (size % Width(size))

\* A quantile of a page of statistics falls in the bucket of the size that is
\* really at that rank, within the 4 % of it that analysis.rs states (lines 11,
\* 38, 147 and 643) except where WiderThanStated; it is never outside of what
\* was seen, and a higher one is never smaller.
QuantilesAreClose(sizes) ==
  LET sketch == Sketch(sizes)
      sorted == SortSeq(sizes, <)
  IN  \A p \in Reported :
        LET truth == sorted[AtLeast((p * Len(sizes) + 999) \div 1000, 1)]
            told  == Quantile(sketch, p)
        IN  /\ SizeBucket(told) = SizeBucket(truth)
            /\ WiderThanStated(truth) \/ (25 * (told - truth) <= truth /\ 25 * (truth - told) <= truth)
            /\ sketch.min <= told /\ told <= sketch.max
            /\ \A q \in Reported : p <= q => told <= Quantile(sketch, q)

(***************************************************************************)
(* Accumulators                                                            *)
(***************************************************************************)
Nothing == [ total |-> 0, missing |-> 0, nullKeys |-> 0, nullValues |-> 0,
             hourly |-> [h \in {} |-> 0], truncated |-> FALSE ]

\* Euclidean, as div_euclid is; an hour is two units of this clock.
Hour(time) == time \div 2

\* Mutant of Counted: past the cap an hour is dropped without a word.
CountedQuietly(held, time) ==
  IF Cardinality(DOMAIN held.hourly) < MaxHours \/ Hour(time) \in DOMAIN held.hourly
  THEN [held EXCEPT !.hourly = [h \in DOMAIN @ \cup {Hour(time)} |->
          (IF h \in DOMAIN @ THEN @[h] ELSE 0) + (IF h = Hour(time) THEN 1 ELSE 0)]]
  ELSE held

\* The hourly histogram: an hour beyond the cap is left out, and that is told.
Counted(held, time) ==
  IF Cardinality(DOMAIN held.hourly) < MaxHours \/ Hour(time) \in DOMAIN held.hourly
  THEN [held EXCEPT !.hourly = [h \in DOMAIN @ \cup {Hour(time)} |->
          (IF h \in DOMAIN @ THEN @[h] ELSE 0) + (IF h = Hour(time) THEN 1 ELSE 0)]]
  ELSE [held EXCEPT !.truncated = TRUE]

\* Accumulator::record
Recorded(held, record) ==
  LET timed == IF record.time < 0 THEN [held EXCEPT !.missing = @ + 1] ELSE Counted(held, record.time)
  IN  [timed EXCEPT !.total      = @ + 1,
                    !.nullKeys   = IF record.key = NoSize THEN @ + 1 ELSE @,
                    !.nullValues = IF record.value = NoSize THEN @ + 1 ELSE @]

\* TopicAnalysisBuilder: every record goes to the totals and its partition.
Totals(records) == FoldLeft(Recorded, Nothing, records)

OfPartition(records, p) == Totals(SelectSeq(records, LAMBDA record : record.partition = p))

Held(held) == MapThenSumSet(LAMBDA h : held.hourly[h], DOMAIN held.hourly)

\* A histogram that is not called truncated has every record that has a
\* timestamp, and then the partitions' histograms are whole too and add up to
\* the topic's; one that is called truncated has lost some.
HistogramAccounts(records) ==
  LET totals     == Totals(records)
      partitions == {record.partition : record \in ToSet(records)}
      whole(held) == Held(held) + held.missing = held.total
  IN  /\ whole(totals) <=> ~totals.truncated
      /\ totals.total = MapThenSumSet(LAMBDA p : OfPartition(records, p).total, partitions)
      /\ ~totals.truncated =>
           /\ \A p \in partitions : ~OfPartition(records, p).truncated
           /\ Held(totals) = MapThenSumSet(LAMBDA p : Held(OfPartition(records, p)), partitions)
=============================================================================
