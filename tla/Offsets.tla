------------------------------ MODULE Offsets ------------------------------
(***************************************************************************)
(* What the pages of topics and of consumer groups say of offsets and      *)
(* sizes: routes/topics.rs and routes/groups.rs of kaas-ui-api, and the    *)
(* rows of kaas-ui-core/src/dto.rs they fill.                              *)
(*                                                                         *)
(* A page reads a log up to three times, and the log moves on in between:  *)
(* its high end as records are written, its low end as they are retired.   *)
(* A log is [commit, read, latest, earliest, low, high]: the ends it had   *)
(* at the three instants, the group's commit, and how the broker answers   *)
(* for it, "offset", "none" or "error".  lost is the set of ListOffsets    *)
(* calls that failed as a whole.                                           *)
(***************************************************************************)
EXTENDS Integers, Sequences, FiniteSets, FiniteSetsExt, SequencesExt

CONSTANT NoAnswer  \* None, of an offset, a count or a size

ASSUME NoAnswerIsNoNumber == NoAnswer \notin Int

\* Mutant of ReadAt: the ends are read first, and then the commits.
ReadAtEndsFirst == [latest |-> 1, earliest |-> 2, committed |-> 3]

\* The calls of a page are made one after the other.
ReadAt == [committed |-> 1, latest |-> 2, earliest |-> 3]

LatestOf(lost, log) ==
  IF "latest" \in lost \/ log.latest # "offset" THEN NoAnswer ELSE log.high[ReadAt.latest]

EarliestOf(lost, log) ==
  IF "earliest" \in lost \/ log.earliest # "offset" THEN NoAnswer ELSE log.low[ReadAt.earliest]

\* The failures a topic page tells of: a call's, numbered 0, or a partition's.
EndErrors(lost, logs) ==
  (lost \X {0})
  \cup {<<"latest", i>> : i \in {i \in DOMAIN logs : "latest" \notin lost /\ logs[i].latest = "error"}}
  \cup {<<"earliest", i>> : i \in {i \in DOMAIN logs : "earliest" \notin lost /\ logs[i].earliest = "error"}}

(***************************************************************************)
(* Consumer groups                                                         *)
(***************************************************************************)
Lag(committed, earliest, latest) ==
  CASE committed = NoAnswer -> [state |-> "noCommit"]
    [] committed # NoAnswer /\ latest = NoAnswer -> [state |-> "unknown"]
    [] committed # NoAnswer /\ latest # NoAnswer ->
         CASE earliest = latest -> [state |-> "emptyPartition"]
           [] earliest # latest /\ latest > committed -> [state |-> "lagging", records |-> latest - committed]
           [] earliest # latest /\ latest <= committed -> [state |-> "caughtUp"]

\* Kafka has a commit below zero where there is none.
Committed(log) == IF log.commit < 0 THEN NoAnswer ELSE log.commit

GroupRow(lost, log) ==
  [ committed |-> Committed(log), latest |-> LatestOf(lost, log),
    lag |-> Lag(Committed(log), EarliestOf(lost, log), LatestOf(lost, log)) ]

\* The failures of the ends are not told: an end is only missing.
GroupPage(lost, logs) ==
  LET answered == {i \in DOMAIN logs : logs[i].read = "offset"}
  IN  [ rows |-> [i \in answered |-> GroupRow(lost, logs[i])], errors |-> DOMAIN logs \ answered ]

(***************************************************************************)
(* Topics                                                                  *)
(***************************************************************************)
Answered(lost, log) == LatestOf(lost, log) # NoAnswer /\ EarliestOf(lost, log) # NoAnswer

Between(lost, log) == LatestOf(lost, log) - EarliestOf(lost, log)

PartitionRow(lost, log) ==
  [ earliest |-> EarliestOf(lost, log), latest |-> LatestOf(lost, log),
    records  |-> IF Answered(lost, log) THEN Between(lost, log) ELSE NoAnswer ]

\* A partition that is short of an end leaves the topic without a count.
MessageCount(lost, logs) ==
  IF \A i \in DOMAIN logs : Answered(lost, logs[i])
  THEN MapThenSumSet(LAMBDA i : Between(lost, logs[i]), DOMAIN logs)
  ELSE NoAnswer

TopicPage(lost, logs) ==
  [ rows |-> [i \in DOMAIN logs |-> PartitionRow(lost, logs[i])], count |-> MessageCount(lost, logs),
    errors |-> EndErrors(lost, logs) ]

(***************************************************************************)
(* Health.  A topic of the snapshot is a sequence of partitions [leader,   *)
(* replicas, isr, offline]: a broker or none, a sequence whose first is    *)
(* the preferred leader, and two sets of its members.                      *)
(***************************************************************************)
UnderReplicated(partition) == Cardinality(partition.isr) < Len(partition.replicas)

IsOffline(partition) == partition.leader = NoAnswer \/ partition.offline # {}

\* What every partition has; a topic without partitions has none.
ReplicationFactor(topic) ==
  IF topic = <<>> THEN 0 ELSE Min({Len(topic[p].replicas) : p \in DOMAIN topic})

OfflineCount(topic) == Cardinality({p \in DOMAIN topic : IsOffline(topic[p])})
UnderCount(topic)   == Cardinality({p \in DOMAIN topic : UnderReplicated(topic[p])})

\* TopicDetail::of
DetailOf(topic) ==
  [ partitions |-> topic, brokerIds |-> UNION {ToSet(topic[p].replicas) : p \in DOMAIN topic},
    factor |-> ReplicationFactor(topic), offline |-> OfflineCount(topic), under |-> UnderCount(topic) ]

\* ClusterCard::absorb counts on its own, one partition after the other.
CountPartition(card, partition) ==
  [ partitions |-> card.partitions + 1,
    offline    |-> card.offline + (IF IsOffline(partition) THEN 1 ELSE 0),
    under      |-> card.under + (IF UnderReplicated(partition) THEN 1 ELSE 0) ]

Absorb(topics) ==
  FoldLeft(LAMBDA card, topic : FoldLeft(CountPartition, card, topic),
           [partitions |-> 0, offline |-> 0, under |-> 0], topics)

\* The first of these that is so of a broker is its cell.
PlacementCell(partition, broker) ==
  [ mark |-> CASE broker \notin ToSet(partition.replicas) -> "none"
               [] broker \in partition.offline            -> "offline"
               [] broker \in ToSet(partition.replicas) \ (partition.offline \cup partition.isr) -> "out of sync"
               [] broker \in partition.isr \ partition.offline ->
                    IF partition.leader = broker THEN "leader" ELSE "in sync",
    preferred |-> partition.replicas # <<>> /\ broker \in ToSet(partition.replicas)
                  /\ partition.replicas[1] = broker ]

PlacementRow(detail, p) ==
  [ leaderless |-> detail.partitions[p].leader = NoAnswer,
    cells |-> [broker \in detail.brokerIds |-> PlacementCell(detail.partitions[p], broker)] ]

\* The facts above the grid: copies are spoken of where every partition has
\* more than one.
FactsOf(detail) ==
  LET topic == detail.partitions
  IN  IF detail.factor > 1
      THEN [ factor |-> detail.factor, under |-> detail.under,
             inSync |-> MapThenSumSet(LAMBDA p : Cardinality(topic[p].isr), DOMAIN topic),
             copies |-> MapThenSumSet(LAMBDA p : Len(topic[p].replicas), DOMAIN topic) ]
      ELSE [factor |-> NoAnswer]

(***************************************************************************)
(* Sizes.  A copy of a partition on a disk is [leader, future, size, lag]; *)
(* kaas-lib adds the copies up.                                            *)
(***************************************************************************)
Present(copies) == SelectSeq(copies, LAMBDA copy : ~copy.future)

Bytes(copies) == FoldLeft(LAMBDA sum, copy : sum + copy.size, 0, copies)

ReplicatedBytes(copies) == Bytes(Present(copies))
LeaderBytes(copies)     == Bytes(SelectSeq(Present(copies), LAMBDA copy : copy.leader))

\* kaas-lib says zero where no copy is a leader's: that is no answer.
LogicalBytes(copies) ==
  IF LeaderBytes(copies) > 0 \/ ReplicatedBytes(copies) = 0 THEN LeaderBytes(copies) ELSE NoAnswer

MaxFollowerLag(copies) ==
  LET followers == {copy \in ToSet(copies) : ~copy.leader /\ ~copy.future}
  IN  IF followers = {} THEN NoAnswer ELSE Max({0} \cup {copy.lag : copy \in followers})

(***************************************************************************)
(* The topic list.  A topic is [name, internal, viewable, matches,         *)
(* partitions, under, logs, size]: where its name sorts, what the query    *)
(* and the caller's roles say of it, and what the cluster does.            *)
(***************************************************************************)
Sorts == {"name", "partitions", "size", "messages", "underReplicated"}

Shown(query, topics) ==
  SelectSeq(topics, LAMBDA t : (query.internal \/ ~t.internal) /\ t.viewable /\ (query.search => t.matches))

Summary(topic) ==
  [ name |-> topic.name, partitions |-> topic.partitions, under |-> topic.under,
    count |-> NoAnswer, size |-> NoAnswer ]

\* A size is looked up by name; a topic without partitions has no count here.
Enriched(lost, topic) ==
  [Summary(topic) EXCEPT !.size  = IF "sizes" \in lost THEN NoAnswer ELSE topic.size,
                         !.count = IF topic.logs = <<>> THEN NoAnswer ELSE MessageCount(lost, topic.logs)]

OrZero(number) == IF number = NoAnswer THEN 0 ELSE number

SortKey(sort, row) ==
  CASE sort = "name"            -> row.name
    [] sort = "partitions"      -> row.partitions
    [] sort = "size"            -> OrZero(row.size)
    [] sort = "messages"        -> OrZero(row.count)
    [] sort = "underReplicated" -> row.under

\* Vec::sort_by_key keeps equals in their order.
Ordered(query, rows) ==
  LET key(i)       == SortKey(query.sort, rows[i])
      before(i, j) == key(i) < key(j) \/ (key(i) = key(j) /\ i < j)
      order        == SortSeq([i \in DOMAIN rows |-> i], before)
      sorted       == [i \in DOMAIN rows |-> rows[order[i]]]
  IN  IF query.descending THEN Reverse(sorted) ELSE sorted

SortNeedsMetrics(query) == query.sort \in {"size", "messages"}

PageOf(query, rows) ==
  LET offset == Min({query.offset, Len(rows)})
  IN  SubSeq(rows, offset + 1, Min({offset + query.limit, Len(rows)}))

\* Sorting by a metric fetches it for every topic, and any other sort for the
\* page alone.
TopicList(query, lost, topics) ==
  LET visible == Shown(query, topics)
      of(name) == CHOOSE t \in ToSet(visible) : t.name = name
      rows == [i \in DOMAIN visible |-> IF SortNeedsMetrics(query) THEN Enriched(lost, visible[i])
                                        ELSE Summary(visible[i])]
      page == PageOf(query, Ordered(query, rows))
  IN  IF query.sort \notin Sorts THEN [refused |-> TRUE]
      ELSE [ refused |-> FALSE, total |-> Len(visible),
             rows |-> IF query.metrics /\ ~SortNeedsMetrics(query)
                      THEN [i \in DOMAIN page |-> Enriched(lost, of(page[i].name))] ELSE page ]

(***************************************************************************)
(* What the pages promise                                                  *)
(***************************************************************************)
\* Lag is one of five different things, and none of them passes for another.
\* A group that is called caught up had committed at least what was in the log
\* when its commits were read; what it is told to be behind by is not less than
\* it was then and not more than it is in the end; a partition called empty
\* has lost every record there was; a failed read is unknown, never zero.
LagIsHonest(lost, logs) ==
  LET page == GroupPage(lost, logs)
  IN  /\ DOMAIN page.rows \cup page.errors = DOMAIN logs /\ DOMAIN page.rows \cap page.errors = {}
      /\ \A i \in DOMAIN page.rows :
           LET log == logs[i]
               row == page.rows[i]
               then == log.high[ReadAt.committed]
           IN  CASE row.lag.state = "caughtUp"       -> row.committed >= then
                 [] row.lag.state = "emptyPartition" -> log.low[ReadAt.earliest] >= then
                 [] row.lag.state = "lagging"        -> /\ row.lag.records >= then - log.commit
                                                        /\ row.lag.records <= log.high[3] - log.commit
                 [] row.lag.state = "noCommit"       -> log.commit < 0
                 [] row.lag.state = "unknown"        -> "latest" \in lost \/ log.latest # "offset"

\* A message count is of every partition or there is none: while no retention
\* overtook the latest read, it is what was in the logs when the latest ends
\* were read and is still there; what a partition does not say has its failure
\* told, unless the broker had no offset to give.
CountsAreHonest(lost, logs) ==
  LET page == TopicPage(lost, logs)
      kept(log) == {o \in log.low[2] .. (log.high[2] - 1) : o >= log.low[3]}
  IN  /\ page.count # NoAnswer /\ (\A i \in DOMAIN logs : logs[i].low[3] <= logs[i].high[2]) =>
           page.count = MapThenSumSet(LAMBDA i : Cardinality(kept(logs[i])), DOMAIN logs)
      /\ page.count = NoAnswer <=> \E i \in DOMAIN logs : page.rows[i].records = NoAnswer
      /\ \A i \in DOMAIN logs : page.rows[i].records = NoAnswer =>
           \/ logs[i].latest = "none" \/ logs[i].earliest = "none"
           \/ \E error \in page.errors : error[2] \in {0, i}

\* A partition that has something on a disk is never called empty, and one
\* whose followers are called caught up has none behind.
SizesAreHonest(copies) ==
  /\ LogicalBytes(copies) = 0 => \A copy \in ToSet(copies) : copy.size = 0 \/ copy.future
  /\ MaxFollowerLag(copies) = 0 => \A copy \in ToSet(copies) : copy.lag = 0 \/ copy.leader \/ copy.future

\* The card of a cluster, the rows of its topics and the grid of each tell of the
\* same partitions: the card's totals are the rows'; what a row counts as
\* offline has a mark in the grid and nothing else has one, what it counts as
\* short has a copy that is offline or out of sync; every preferred leader is
\* outlined once.  Facts that leave copies out, of a topic with a partition of
\* one copy, leave out that others are short.
HealthAgrees(topics) ==
  LET card == Absorb(topics)
  IN  /\ card.offline = MapThenSumSet(LAMBDA t : OfflineCount(topics[t]), DOMAIN topics)
      /\ card.under = MapThenSumSet(LAMBDA t : UnderCount(topics[t]), DOMAIN topics)
      /\ \A t \in DOMAIN topics : LET topic == topics[t] IN
           /\ \A p \in DOMAIN topic :
                LET row      == PlacementRow(DetailOf(topic), p)
                    marks(m) == {b \in DOMAIN row.cells : row.cells[b].mark \in m}
                IN  /\ IsOffline(topic[p]) <=> row.leaderless \/ marks({"offline"}) # {}
                    /\ UnderReplicated(topic[p]) => marks({"offline", "out of sync"}) # {}
                    /\ marks({"out of sync"}) # {} => UnderReplicated(topic[p])
                    /\ Cardinality(marks({"leader"})) <= 1
                    /\ marks({"leader"}) = {} /\ ~row.leaderless => marks({"offline", "out of sync"}) # {}
                    /\ Cardinality({b \in DOMAIN row.cells : row.cells[b].preferred}) = 1
           /\ LET facts == FactsOf(DetailOf(topic))
              IN  IF facts.factor = NoAnswer
                  THEN UnderCount(topic) > 0 => \E p \in DOMAIN topic : Len(topic[p].replicas) = 1
                  ELSE /\ \A p \in DOMAIN topic : Len(topic[p].replicas) >= facts.factor
                       /\ facts.under > 0 <=> facts.inSync < facts.copies

\* No page of the list shows a topic that is not to be seen, and none says more
\* of a topic than the brokers do; a topic left for a later page does not come
\* before one on this page by what the brokers answer for the two.
ListIsHonest(query, lost, topics) ==
  LET list    == TopicList(query, lost, topics)
      shown   == {row.name : row \in ToSet(list.rows)}
      wholly  == TopicList([query EXCEPT !.offset = 0, !.limit = Len(topics)], lost, topics)
      before  == {wholly.rows[i].name : i \in 1 .. Min({query.offset, list.total})}
      key(t)  == SortKey(query.sort, Enriched(lost, t))
      comes(a, b) == IF query.descending THEN key(a) >= key(b) ELSE key(a) <= key(b)
  IN  ~list.refused =>
        /\ \A t \in ToSet(topics) : t.name \in shown =>
             /\ t.viewable /\ (t.internal => query.internal)
             /\ \E row \in ToSet(list.rows) :
                  /\ row.name = t.name
                  /\ row.count \in {NoAnswer, MessageCount(lost, t.logs)}
                  /\ query.metrics => row = Enriched(lost, t)
        /\ \A on, later \in ToSet(Shown(query, topics)) :
             on.name \in shown /\ later.name \notin shown \cup before => comes(on, later)
=============================================================================
