------------------------------- MODULE Analysis -------------------------------
(***************************************************************************)
(* One topic analysis from the scan to its last frame: the pump of         *)
(* kaas-ui-api/src/routes/analysis.rs, the result TopicStatistics's        *)
(* accumulators render (kaas-ui-core/src/analysis.rs), and what the sizing *)
(* advice is given of it (Measured::of and SizingAdvice::build).           *)
(*                                                                         *)
(* A scan is [log, cap, broken, deadline, gone, quick]: the cells of a     *)
(* partition's log, [is |-> "record" | "batch" | "gap", record], where a   *)
(* batch is one that does not decode and a gap what compaction took; the   *)
(* cap on records or Unset; the cell at which the read fails, or none; how *)
(* many events are taken before the time is up, and before the reader has  *)
(* gone; and whether no second passes between two progress reports.        *)
(* A fraction is <<over, under>>.                                          *)
(***************************************************************************)
EXTENDS TopicStatistics, Sizing

(***************************************************************************)
(* The library's scan                                                      *)
(***************************************************************************)
Passed(scan, n) == Cardinality({i \in 1 .. n : scan.log[i].is = "record"})

BatchesIn(scan, n) == Cardinality({i \in 1 .. n : scan.log[i].is = "batch"})

\* Where it ends by itself: at the cap, at the end, or before what it cannot read.
LastCell(scan) ==
  Min({Len(scan.log)} \cup {i \in DOMAIN scan.log : Passed(scan, i) = scan.cap}
        \cup {i - 1 : i \in {scan.broken} \cap DOMAIN scan.log})

Event(is, at) == [is |-> is, at |-> at]

\* What it tells of each cell, its progress after it, and how it ended.
Events(scan) ==
  LET last == LastCell(scan)
      ofCell(i) == (IF scan.log[i].is = "gap" THEN <<>> ELSE <<Event(scan.log[i].is, i)>>)
                     \o <<Event("progress", i)>>
      fails == scan.broken = last + 1 /\ scan.broken \in DOMAIN scan.log
                 /\ (scan.cap = Unset \/ Passed(scan, last) < scan.cap)
  IN  FlattenSeq([i \in 1 .. last |-> ofCell(i)]) \o <<Event(IF fails THEN "error" ELSE "done", last)>>

\* ScanProgress::fraction, of the offsets the scan set out to consume.
Span(scan, at) == IF scan.log = <<>> THEN Unset ELSE <<at, Len(scan.log)>>

(***************************************************************************)
(* The pump                                                                *)
(***************************************************************************)
Below(a, b) == a[1] * b[2] <= b[1] * a[2]

\* The nearer of the two finish lines.
NearerFraction(scan, at) ==
  LET span  == Span(scan, at)
      byCap == <<AtMost(Passed(scan, at), scan.cap), scan.cap>>
  IN  IF scan.cap = Unset THEN span
      ELSE IF span = Unset THEN byCap
      ELSE IF Below(span, byCap) THEN byCap ELSE span

\* The events the loop takes: those before the deadline.
Taken(scan) == SubSeq(Events(scan), 1, AtMost(scan.deadline, Len(Events(scan))))

\* The reader has gone, which is looked at after each event but the last.
Left(scan) == \E i \in DOMAIN Taken(scan) : i >= scan.gone /\ Taken(scan)[i].is \notin {"done", "error"}

\* What ended the walk.
StoppedBy(scan) ==
  LET last == IF Taken(scan) = <<>> THEN Event("none", 0) ELSE Last(Taken(scan))
      capped == /\ scan.cap # Unset
                /\ Passed(scan, last.at) >= scan.cap /\ last.at < Len(scan.log)
  IN  CASE last.is = "error"           -> "Error"
        [] last.is # "done"            -> "TimeCap"
        [] last.is = "done" /\ capped  -> "MessageCap"
        [] OTHER                       -> "End"

\* The last progress there was, the one of the end included.
LastProgress(scan) ==
  LET reports == SelectSeq(Taken(scan), LAMBDA event : event.is \in {"progress", "done"})
  IN  IF reports = <<>> THEN Unset ELSE Span(scan, Last(reports).at)

\* The reports that are passed on: the first, and those a second later.
Due(scan) ==
  LET reports == SelectSeq(Taken(scan), LAMBDA event : event.is = "progress")
  IN  IF scan.quick THEN SubSeq(reports, 1, AtMost(1, Len(reports))) ELSE reports

ToldProgress(scan) ==
  [i \in DOMAIN Due(scan) |-> LET at == Due(scan)[i].at
                              IN  [fraction |-> NearerFraction(scan, at), scanned |-> Passed(scan, at),
                                   batches |-> BatchesIn(scan, at)]]

(***************************************************************************)
(* The result                                                              *)
(***************************************************************************)
SizesOf(records, side) ==
  SelectSeq([i \in DOMAIN records |-> IF side = "key" THEN records[i].key ELSE records[i].value],
            LAMBDA size : size # NoSize)

Sum(sizes) == FoldLeft(LAMBDA sum, size : sum + size, 0, sizes)

\* SizeSketch::render
SizeStats(sizes) ==
  IF sizes = <<>> THEN Unset
  ELSE [ sum |-> Sum(sizes), avg |-> <<Sum(sizes), Len(sizes)>>, min |-> Sketch(sizes).min, max |-> Sketch(sizes).max,
         quantiles |-> [p \in Reported |-> Quantile(Sketch(sizes), p)] ]

\* Accumulator::render; the sketch of distinct keys answers any guess.
Stats(records, batches, guess) ==
  LET held  == Totals(records)
      timed == {record.time : record \in ToSet(records)} \cap Nat
  IN  [ total |-> held.total, missing |-> held.missing, nullKeys |-> held.nullKeys, nullValues |-> held.nullValues,
        oldest |-> IF timed = {} THEN Unset ELSE Min(timed), newest |-> IF timed = {} THEN Unset ELSE Max(timed),
        distinct |-> AtMost(guess, held.total), keys |-> SizeStats(SizesOf(records, "key")),
        values |-> SizeStats(SizesOf(records, "value")), hourly |-> held.hourly, truncated |-> held.truncated,
        malformed |-> batches ]

StampedBy(records) ==
  LET stamps == {record.stamp : record \in ToSet(records)}
  IN  IF stamps = {} THEN Unset ELSE IF Cardinality(stamps) = 1 THEN CHOOSE stamp \in stamps : TRUE ELSE "mixed"

\* The rows: a partition has one once a record or a batch of it was met.
PartitionRows(records, batches, guess) ==
  [p \in {record.partition : record \in ToSet(records)} \cup ToSet(batches) |->
     Stats(SelectSeq(records, LAMBDA record : record.partition = p),
           Len(SelectSeq(batches, LAMBDA batch : batch = p)), guess)]

\* The records and the batches of the events taken.
FoldOf(scan) ==
  LET cells(is) == SelectSeq(Taken(scan), LAMBDA event : event.is = is)
      of(is)    == [i \in DOMAIN cells(is) |-> scan.log[cells(is)[i].at].record]
  IN  [ records |-> of("record"), batches |-> [i \in DOMAIN of("batch") |-> of("batch")[i].partition] ]

\* TopicAnalysisBuilder::render
ResultOf(fold, stop, fraction, guess) ==
  [ stoppedBy |-> stop, complete |-> stop = "End", fraction |-> fraction, clock |-> StampedBy(fold.records),
    totals |-> Stats(fold.records, Len(fold.batches), guess),
    partitions |-> PartitionRows(fold.records, fold.batches, guess),
    failed |-> stop = "Error" ]

\* A scan that ended is the whole window, whatever the arithmetic says.
Result(scan) ==
  LET stop == StoppedBy(scan)
  IN  ResultOf(FoldOf(scan), stop, IF stop = "End" THEN <<1, 1>> ELSE LastProgress(scan), 9)

\* What the reader is sent: "result" or "error" once, and then "done"; nothing
\* more once it has gone.
Frames(scan, planned) ==
  IF ~planned THEN << "seeking", "error", "done" >>
  ELSE << "seeking", "streaming" >> \o [i \in DOMAIN ToldProgress(scan) |-> "progress"]
         \o (IF Left(scan) THEN << >> ELSE << "result", "done" >>)

\* An analysis that calls itself complete has every record and every batch of
\* the log in its numbers, and one that stopped at its cap has that many and
\* offsets left; what stopped it says no more than happened.  The bar of a scan
\* never goes back and never past its end, and reaches it at the cap as at the
\* end of the log; only the frames after the last
\* event say how it ended.  The totals are the sum of the partitions' rows, the
\* batches that did not decode included.  Premise: the library ends a scan at
\* the cap, at the end or with an error, and says which.
AnalysisIsTold(scan, planned) ==
  \A result \in {Result(scan)}, told \in {ToldProgress(scan)}, frames \in {Frames(scan, planned)} :
  LET all(is) == Cardinality({i \in DOMAIN scan.log : scan.log[i].is = is})
      added(field(_)) == MapThenSumSet(LAMBDA p : field(result.partitions[p]), DOMAIN result.partitions)
  IN  /\ result.complete => /\ result.totals.total = all("record") \/ result.totals.total = scan.cap
                            /\ result.totals.malformed = all("batch")
                            /\ ~result.failed /\ result.fraction = <<1, 1>>
      /\ result.stoppedBy = "MessageCap" =>
           result.totals.total = scan.cap /\ ~Below(<<1, 1>>, result.fraction)
      /\ result.stoppedBy = "TimeCap" => Len(Taken(scan)) = scan.deadline
      /\ result.failed => scan.broken \in DOMAIN scan.log
      /\ (scan.deadline > Len(Events(scan)) /\ LastCell(scan) = Len(scan.log)) => result.complete
      /\ \A i \in DOMAIN told : /\ told[i].fraction # Unset => Below(told[i].fraction, <<1, 1>>)
                                /\ \A j \in 1 .. i : Below(told[j].fraction, told[i].fraction)
                                /\ told[i].scanned <= result.totals.total
                                /\ told[i].batches <= result.totals.malformed
      /\ (told # <<>> /\ ~scan.quick /\ result.stoppedBy \in {"End", "MessageCap"}) =>
           Below(<<1, 1>>, Last(told).fraction)
      /\ result.totals.total = added(LAMBDA row : row.total)
      /\ result.totals.malformed = added(LAMBDA row : row.malformed)
      /\ (result.clock = Unset) <=> (result.totals.total = 0)
      /\ (planned /\ Left(scan)) <=> Last(frames) # "done"
      /\ Last(frames) = "done" =>
           Cardinality({i \in DOMAIN frames : frames[i] \in {"result", "error"}}) = 1

(***************************************************************************)
(* What the advice is given                                                *)
(***************************************************************************)
HourLength == 2

Over(part, whole) == IF whole > 0 THEN <<part, whole>> ELSE Unset

Times(a, b) == IF Unset \in {a, b} THEN Unset ELSE <<a[1] * b[1], a[2] * b[2]>>

\* The busiest partition against the mean one.
PartitionSkew(rows) ==
  LET total == MapThenSumSet(LAMBDA p : rows[p].total, DOMAIN rows)
  IN  IF Cardinality(DOMAIN rows) < 2 THEN Unset
      ELSE Over(Max({rows[p].total : p \in DOMAIN rows}) * Cardinality(DOMAIN rows), total)

SumOf(stats) == IF stats = Unset THEN 0 ELSE stats.sum

\* A record's bytes on disk, or those of its payload where no disk was read.
BytesPerRecord(totals, disk) ==
  IF disk # Unset /\ disk > 0 /\ totals.total > 0 THEN <<disk, totals.total>>
  ELSE Over(SumOf(totals.keys) + SumOf(totals.values), totals.total)

Measured(result, disk) ==
  LET totals  == result.totals
      payload == SumOf(totals.keys) + SumOf(totals.values)
      window  == IF Unset \in {totals.oldest, totals.newest} \/ totals.newest = totals.oldest THEN Unset
                 ELSE totals.newest - totals.oldest
      mean    == IF window = Unset THEN Unset ELSE <<totals.total, window>>
      peak    == IF DOMAIN totals.hourly = {} THEN Unset
                 ELSE <<Max({totals.hourly[h] : h \in DOMAIN totals.hourly}), HourLength>>
      bytes   == BytesPerRecord(totals, disk)
      ofAll(part) == Over(part, totals.total)
  IN  [ records |-> totals.total, complete |-> result.complete, window |-> window, mean |-> mean, peak |-> peak,
        burst |-> IF Unset \in {mean, peak} THEN Unset ELSE <<peak[1] * mean[2], peak[2] * mean[1]>>,
        bytes |-> bytes, payload |-> ofAll(payload),
        compression |-> IF disk # Unset /\ disk > 0 /\ payload > 0 THEN <<payload, disk>> ELSE Unset,
        meanBytes |-> Times(mean, bytes), peakBytes |-> Times(peak, bytes),
        skew |-> PartitionSkew(result.partitions), keyed |-> ofAll(totals.total - totals.nullKeys),
        distinct |-> ofAll(totals.distinct), tombstones |-> ofAll(totals.nullValues), clock |-> result.clock ]

\* Two fractions are one number.
Same(a, b) == Below(a, b) /\ Below(b, a)

\* What is measured of a result divides by nothing that may be zero; shares of
\* the records are shares, and the partitions' skew is at least one and at most
\* their number.  Bytes, payload and compression agree with each other, and so
\* do the rates with the ratio of the two; an empty answer of the disks makes no
\* record weigh nothing.  The busiest hour is no less than a third of the mean
\* over a window of an hour or more.  Premise of the last: no record lacks a
\* timestamp (such a one is in the mean and in no hour) and the histogram is
\* whole.
MeasureHolds(records, batches, disk, guess) ==
  \A result \in {ResultOf([records |-> records, batches |-> batches], "End", <<1, 1>>, guess)} :
  \A measured \in {Measured(result, disk)} :
  LET shares   == {measured.keyed, measured.distinct, measured.tombstones}
      ratios   == shares \cup {measured.mean, measured.peak, measured.burst, measured.bytes, measured.payload,
                               measured.compression, measured.meanBytes, measured.peakBytes, measured.skew}
  IN  /\ \A ratio \in ratios \ {Unset} : ratio[2] > 0
      /\ \A share \in shares \ {Unset} : Below(<<0, 1>>, share) /\ Below(share, <<1, 1>>)
      /\ measured.skew # Unset => /\ Below(<<1, 1>>, measured.skew)
                                  /\ Below(measured.skew, <<Cardinality(DOMAIN result.partitions), 1>>)
      /\ (measured.compression # Unset /\ measured.payload # Unset) =>
           Same(Times(measured.compression, measured.bytes), measured.payload)
      /\ (measured.payload # Unset /\ measured.payload[1] > 0) => measured.bytes[1] > 0
      /\ Unset \notin {measured.meanBytes, measured.peakBytes, measured.burst} =>
           Same(Times(measured.burst, measured.meanBytes), measured.peakBytes)
      /\ (/\ measured.window # Unset /\ measured.window >= HourLength
          /\ result.totals.missing = 0 /\ ~result.totals.truncated) =>
           Below(<<1, 3>>, measured.burst)

(***************************************************************************)
(* The advice: a cluster is [listed, streams, replicas, brokers, entries,  *)
(* sizes], where entries is what the describe answered of the topic's      *)
(* configuration, [value, explicit] by name and empty when it failed, and  *)
(* sizes what the log directories said, or Unset.                          *)
(***************************************************************************)
TextOf(entries, name) == IF name \in DOMAIN entries THEN entries[name].value ELSE Unset

\* Not reported, redacted and not a number alike.
NumberOf(entries, name) == IF TextOf(entries, name) \in Int THEN TextOf(entries, name) ELSE Unset

IsExplicit(entries, name) == name \in DOMAIN entries /\ entries[name].explicit

\* lint.rs's evidence: what the partitions hold.
Evidence(sizes) ==
  IF sizes \in {Unset, <<>>} THEN Unset
  ELSE [total |-> Sum(sizes), smallest |-> Min(ToSet(sizes)), largest |-> Max(ToSet(sizes)), measured |-> Len(sizes)]

\* The topic as its weakest partition describes it, in the words of Sizing.
Described(cluster) ==
  LET entries == cluster.entries
  IN  [ streams |-> cluster.streams, partitions |-> Len(cluster.replicas),
        replicas |-> IF cluster.replicas = <<>> THEN 0 ELSE Min(ToSet(cluster.replicas)),
        brokers |-> cluster.brokers, sizes |-> cluster.sizes,
        cleanup |-> IF TextOf(entries, "cleanup.policy") = Unset THEN {"delete"} ELSE entries["cleanup.policy"].value,
        compressed |-> IsExplicit(entries, "compression.type") /\ TextOf(entries, "compression.type") \notin {Unset, "none"},
        retention |-> NumberOf(entries, "retention.ms"), retentionBytes |-> NumberOf(entries, "retention.bytes"),
        segment |-> NumberOf(entries, "segment.bytes"), roll |-> NumberOf(entries, "segment.ms"),
        rollSet |-> IsExplicit(entries, "segment.ms"), index |-> NumberOf(entries, "segment.index.bytes"),
        interval |-> NumberOf(entries, "index.interval.bytes"), minInsync |-> NumberOf(entries, "min.insync.replicas"),
        dirty |-> NumberOf(entries, "min.cleanable.dirty.ratio") ]

\* Whether the sentence beside a profile says that it does not apply.
Denies(profile, topic, measured) ==
  CASE profile = "Balanced"           -> Compacts(topic) \/ topic.streams \/ Bursty(measured)
    [] profile = "CompactedChangelog" -> ~Compacts(topic)
    [] profile = "HighThroughput"     -> measured.peak = Unset
    [] profile = "LowLatency"         -> TRUE
    [] profile = "Bursty"             -> measured.peak = Unset \/ measured.mean = Unset
    [] profile = "StreamsInternal"    -> ~topic.streams
    [] profile = "RetentionPrecision" -> ~PrecisionRisk(topic, measured)

\* The settings that are reported, in the page's order.
SettingsTold(entries) ==
  SelectSeq(<< "cleanup.policy", "retention.ms", "retention.bytes", "segment.ms", "segment.bytes", "segment.index.bytes",
               "index.interval.bytes", "min.cleanable.dirty.ratio", "min.insync.replicas", "compression.type" >>,
            LAMBDA name : name \in DOMAIN entries)

\* None for a topic that has left the snapshot; the rest degrades.
Advice(cluster, measured) ==
  IF ~cluster.listed THEN Unset
  ELSE LET topic == Described(cluster)
       IN  [ suggested |-> Suggested(topic, measured), diagnostics |-> Diagnostics(topic),
             sizes |-> Evidence(cluster.sizes),
             settings |-> SettingsTold(cluster.entries) ]

\* A describe that fails, or an entry that is not reported, costs advice and
\* never adds to it: nothing is said of the topic that is not said with all that
\* is known, but for the compacted tail, which is said of a roll nobody set as
\* long as no log directory speaks against it.  The sentence beside the profile
\* that is suggested does not deny it.  Premises: a broker reports both limits
\* of the retention or neither, and the cleanup policy with what is read beside
\* it; a rate was measured.
AdviceOnlyNarrows(cluster, measured, hidden) ==
  LET known  == Advice(cluster, measured)
      less   == [cluster EXCEPT !.entries = [name \in DOMAIN @ \ hidden |-> @[name]]]
      blind  == [less EXCEPT !.sizes = Unset]
      sound(c) == Diagnostics(Described(c))
  IN  /\ (known = Unset) <=> ~cluster.listed
      /\ known # Unset =>
           /\ sound(less) \subseteq known.diagnostics
           /\ sound(blind) \subseteq known.diagnostics \cup {"CompactedTailNeverCleaned"}
           /\ ToSet(Advice(less, measured).settings) \subseteq ToSet(known.settings)
           /\ measured.peak # Unset => ~Denies(known.suggested, Described(cluster), measured)
=============================================================================
