------------------------------- MODULE Windows -------------------------------
(***************************************************************************)
(* How a window of a topic is asked for and told: the browser's link       *)
(* (features/messages/search.ts, seek-modes.ts, use-message-stream.ts),    *)
(* the server's plan of it (routes/messages/seek.rs), and the answers that *)
(* are made at one go: the tail and the one record of mod.rs, what an      *)
(* instant resolved to (resolve.rs), the progress of a scan (stream.rs),   *)
(* and the line the audit has of each.  MessagePages and MessageStream are *)
(* about windows that are walked and streamed.                             *)
(*                                                                         *)
(* A query is [mode, offset, timestamp, partitions, visibility, filter,    *)
(* limit], each Omitted or what the URL says: partitions a sequence of     *)
(* numbers and words (empty if it has only commas), a filter how many      *)
(* blanks it begins with and how many characters follow.                   *)
(***************************************************************************)
EXTENDS Decoding, Integers, FiniteSetsExt

CONSTANTS
  Omitted,      \* no value: a parameter that is not there, an offset not known
  Word,         \* a text that is not a number
  MaxLimit,     \* MAX_LIMIT of seek.rs
  DefaultLimit, \* DEFAULT_LIMIT
  TailLimit,    \* MAX_LIMIT of mod.rs
  TailDefault   \* the tail's rows when the caller does not say

ASSUME LimitsAreCounts ==
  MaxLimit \in Nat /\ DefaultLimit \in 1 .. MaxLimit /\ TailLimit \in Nat /\ TailDefault \in 1 .. TailLimit

(***************************************************************************)
(* SeekMode                                                                *)
(***************************************************************************)
Modes == {"live", "newest", "oldest", "fromOffset", "toOffset", "sinceTime", "toTime"}

IsLive(mode)     == mode = "live"
IsBackward(mode) == mode \in {"newest", "toOffset", "toTime"}

Requires(mode) ==
  CASE mode \in {"fromOffset", "toOffset"}     -> "offset"
    [] mode \in {"sinceTime", "toTime"}        -> "timestamp"
    [] OTHER                                   -> Omitted

TimestampOf(mode, query) == IF Requires(mode) = "timestamp" THEN query.timestamp ELSE Omitted

(***************************************************************************)
(* Plan::build                                                             *)
(***************************************************************************)
Refused == [ok |-> FALSE]

PartitionsRefused(partitions) ==
  partitions # Omitted /\ (partitions = <<>> \/ Word \in ToSet(partitions))

LimitRefused(limit, most) == limit # Omitted /\ limit \notin 1 .. most

\* limit_for
LimitFor(mode, limit) ==
  CASE IsLive(mode)                        -> Omitted
    [] ~IsLive(mode) /\ limit = Omitted    -> DefaultLimit
    [] ~IsLive(mode) /\ limit # Omitted    -> limit

\* Where kaas-lib starts from, forward or backward.
AnchorOf(mode, query) ==
  CASE Requires(mode) # Omitted       -> <<Requires(mode), query[Requires(mode)]>>
    [] mode \in {"live", "newest"}    -> <<"end">>
    [] mode = "oldest"                -> <<"start">>

\* The visibility is "all" or "committed".
Planned(mode, query) ==
  [ ok |-> TRUE, mode |-> mode, backward |-> IsBackward(mode), anchor |-> AnchorOf(mode, query),
    partitions |-> query.partitions, committed |-> query.visibility = "committed",
    limit |-> LimitFor(mode, query.limit), follow |-> IsLive(mode),
    floor |-> IF mode = "fromOffset" THEN query.offset ELSE Omitted ]

\* A caller that names no mode gets the one that ends by itself.
ModeOf(query) == IF query.mode = Omitted THEN "newest" ELSE query.mode

\* What is wrong with a query, all of it a 400; the extractor knows the modes.
Faults(query) ==
  LET needed == Requires(ModeOf(query))
  IN  {fault \in {"mode", "needs", "offset", "partitions", "visibility", "limit"} :
         CASE fault = "mode"       -> ModeOf(query) \notin Modes
           [] fault = "needs"      -> needed # Omitted /\ query[needed] = Omitted
           [] fault = "offset"     -> query.offset # Omitted /\ query.offset < 0
           [] fault = "partitions" -> PartitionsRefused(query.partitions)
           [] fault = "visibility" -> query.visibility \notin {Omitted, "all", "committed"}
           [] fault = "limit"      -> LimitRefused(query.limit, MaxLimit)}

Build(query) == IF Faults(query) = {} THEN Planned(ModeOf(query), query) ELSE Refused

FilterRefused(query) == query.filter # Omitted /\ ParseFilter(query.filter.chars) = "refused"

\* What a stream is opened for, once it is recorded and has its permit.
Opens(query) == IF FilterRefused(query) THEN Refused ELSE Build(query)

\* A page of a window that has no end is refused.
PagePlan(query) == IF IsLive(ModeOf(query)) THEN Refused ELSE Opens(query)

(***************************************************************************)
(* The browser's half                                                      *)
(***************************************************************************)
\* SEEK_MODES: which end is shown first, and what a mode is not usable without.
Sort(mode)  == IF mode \in {"live", "newest", "toOffset", "toTime"} THEN "desc" ELSE "asc"
Needs(mode) ==
  CASE mode \in {"fromOffset", "toOffset"} -> "offset"
    [] mode \in {"sinceTime", "toTime"}    -> "timestamp"
    [] OTHER                               -> Omitted

\* The URL as zod reads it, or an error page.
Fields(url) ==
  /\ url.mode \in Modes \cup {Omitted}
  /\ url.offset # Omitted => url.offset >= 0
  /\ url.visibility \in {"all", "committed", Omitted}
  /\ ~LimitRefused(url.limit, MaxLimit)

\* usable(): a mode without its parameter is the default one, and a filter is cut
\* to what the server takes, blanks and all.
Usable(url) ==
  LET mode == IF url.mode = Omitted THEN "newest" ELSE url.mode
      lack == Needs(mode) # Omitted /\ url[Needs(mode)] = Omitted
      cut  == [blanks |-> Min({url.filter.blanks, MaxFilterChars}),
               chars  |-> Min({url.filter.chars, Max({0, MaxFilterChars - url.filter.blanks})})]
  IN  [url EXCEPT !.mode = IF lack THEN "newest" ELSE mode,
                  !.visibility = IF @ = Omitted THEN "all" ELSE @,
                  !.filter = IF @ = Omitted THEN Omitted ELSE cut]

\* streamUrl: blank parameters are left out, the limit of a live one too.
StreamUrl(url) ==
  LET search == Usable(url)
  IN  [search EXCEPT
         !.filter = IF @ = Omitted THEN Omitted ELSE IF @.chars = 0 THEN Omitted ELSE [@ EXCEPT !.blanks = 0],
         !.limit  = IF IsLive(search.mode) THEN Omitted ELSE @]

(***************************************************************************)
(* The tail of a topic: what kaas-lib read of each partition is a sequence *)
(* of [partition, records, malformed], a record [offset, time].            *)
(***************************************************************************)
RowsOf(tail) ==
  [i \in DOMAIN tail.records |->
     [partition |-> tail.partition, offset |-> tail.records[i].offset, time |-> tail.records[i].time]]

Later(a, b) ==
  \/ a.time > b.time
  \/ a.time = b.time /\ a.offset > b.offset
  \/ a.time = b.time /\ a.offset = b.offset /\ a.partition < b.partition

\* The line the audit gets: the lowest and the highest offset that is shown.
RangeOf(rows) ==
  LET offsets == {rows[i].offset : i \in DOMAIN rows}
  IN  [ first   |-> IF offsets = {} THEN Omitted ELSE Min(offsets),
        last    |-> IF offsets = {} THEN Omitted ELSE Max(offsets),
        records |-> Len(rows) ]

\* Merged, newest first, cut; what was fetched is the total, and batches that did
\* not decode are told.
Merged(tails, limit) ==
  LET fetched == SortSeq(FlattenSeq([i \in DOMAIN tails |-> RowsOf(tails[i])]), Later)
      shown   == SubSeq(fetched, 1, Min({limit, Len(fetched)}))
  IN  [ ok |-> TRUE, items |-> shown, total |-> Len(fetched), audited |-> RangeOf(shown),
        malformed |-> FoldLeft(LAMBDA sum, tail : sum + tail.malformed, 0, tails) ]

\* tail()
TailPage(query, tails) ==
  IF LimitRefused(query.limit, TailLimit) \/ PartitionsRefused(query.partitions) THEN Refused
  ELSE Merged(tails, IF query.limit = Omitted THEN TailDefault ELSE query.limit)

(***************************************************************************)
(* One record.  A log is [low, cells, ends]: from offset low on, what each *)
(* offset holds - a "record", the beginning of a batch that is "bad", the  *)
(* "rest" of one, or a "gap" - and whether such a batch says its end.      *)
(***************************************************************************)
HighOf(log)        == log.low + Len(log.cells)
CellAt(log, o)     == log.cells[o - log.low + 1]
BatchEnd(log, o)   == Max({e \in o .. HighOf(log) - 1 : \A i \in o + 1 .. e : CellAt(log, i) = "rest"})

\* A scan starts inside the log, with the whole of the batch it starts in.
FirstEvent(log, asked) ==
  LET inside == Min({Max({asked, log.low}), HighOf(log) - 1})
      base(o) == Max({b \in log.low .. o : CellAt(log, b) # "rest"})
      ahead  == {o \in base(inside) .. HighOf(log) - 1 : CellAt(log, o) \in {"record", "bad"}}
  IN  IF log.cells = <<>> \/ ahead = {} THEN [kind |-> "done"]
      ELSE LET o == Min(ahead)
           IN  IF CellAt(log, o) = "record" THEN [kind |-> "record", offset |-> o]
               ELSE [kind |-> "bad", offset |-> o, last |-> IF log.ends THEN BatchEnd(log, o) ELSE Omitted]

\* one(): the scan's first answer, if that is what was asked for; of a batch that
\* did not decode, the batch.
One(log, asked) ==
  LET event == FirstEvent(log, asked)
      end   == IF event.last = Omitted THEN event.offset ELSE Max({event.offset, event.last})
  IN  CASE asked < 0                                             -> [kind |-> "refused"]
        [] asked >= 0 /\ event.kind = "done"                     -> [kind |-> "not found"]
        [] asked >= 0 /\ event.kind = "record" ->
             IF event.offset = asked THEN [kind |-> "record", first |-> asked, last |-> asked]
             ELSE [kind |-> "not found"]
        [] asked >= 0 /\ event.kind = "bad" ->
             IF asked \in event.offset .. end THEN [kind |-> "bad", first |-> event.offset, last |-> end]
             ELSE [kind |-> "not found"]

(***************************************************************************)
(* What an instant resolved to.  answers: partition -> [error, offset],   *)
(* or Omitted when the call fails.                                         *)
(***************************************************************************)
Resolve(plan, query, known, answers) ==
  LET instant == TimestampOf(plan.mode, query)
      wanted  == IF plan.partitions = Omitted THEN known ELSE ToSet(plan.partitions)
      offset(p) == IF answers[p].error THEN Omitted ELSE answers[p].offset
  IN  IF instant = Omitted \/ wanted = {} \/ answers = Omitted THEN Omitted
      ELSE [ timestamp  |-> instant,
             partitions |-> [i \in 1 .. Cardinality(wanted) |->
                               LET p == SetToSortSeq(wanted, <)[i] IN <<p, offset(p)>>],
             unresolved |-> \A p \in wanted : offset(p) = Omitted ]

(***************************************************************************)
(* How far a scan has got: [consumed, total, emitted], and a limit.  A     *)
(* fraction is <<numerator, denominator>>.                                 *)
(***************************************************************************)
NoFurther(a, b) == a[1] * b[2] <= b[1] * a[2]

\* kaas-lib: what it walked of the span it planned, if it planned any.
SpanOf(progress) ==
  IF progress.total = 0 THEN Omitted ELSE <<Min({progress.consumed, progress.total}), progress.total>>

\* fraction(): the nearer of the two finish lines.
Fraction(progress, limit) ==
  LET span     == SpanOf(progress)
      by_limit == <<Min({progress.emitted, limit}), limit>>
  IN  IF span = Omitted \/ limit \in {Omitted, 0} THEN span
      ELSE IF NoFurther(span, by_limit) THEN by_limit ELSE span

(***************************************************************************)
(* What they promise                                                       *)
(***************************************************************************)
\* Every link the application opens is one the server serves, in the direction
\* and up to the length it was written for, unless its list of partitions is
\* none: EventSource would take a refusal for a broken network, and ask again.
LinksAreServed(url) ==
  Fields(url) =>
    LET sent == StreamUrl(url)
        plan == Opens(sent)
    IN  /\ plan.ok <=> ~PartitionsRefused(url.partitions)
        /\ plan.ok =>
             /\ ~plan.follow => (plan.backward <=> Sort(sent.mode) = "desc")
             /\ plan.follow <=> url.mode = "live"
             /\ url.mode # Omitted /\ plan.mode # url.mode => url[Needs(url.mode)] = Omitted
             /\ plan.limit = Omitted <=> plan.follow
             /\ ~plan.follow => PagePlan(sent) = plan

\* No read is unbounded but the one that is asked to go on, whoever asks: what
\* is planned starts where its mode says, and a floor is only ever where the
\* scan starts.
PlansAreBounded(query) ==
  LET plan == Opens(query)
  IN  plan.ok =>
        /\ plan.limit = Omitted => query.mode = "live" /\ plan.follow
        /\ plan.limit # Omitted => plan.limit \in 1 .. MaxLimit
        /\ plan.floor # Omitted => ~plan.backward /\ plan.anchor = <<"offset", plan.floor>>
        /\ Omitted \notin ToSet(plan.anchor)
        /\ query.partitions # Omitted => plan.partitions # <<>>

\* The tail is the newest of what was read, the same rows in the same order
\* whatever order the partitions were read in; asking for fewer shows the first
\* of them; the total says what was left out and the audit what was not; and of
\* a partition written in the order of its times, the shown are its last.
TailIsTheNewest(query, tails) ==
  LET page  == TailPage(query, tails)
      fewer == TailPage([query EXCEPT !.limit = Len(page.items) - 1], tails)
      all   == UNION {ToSet(RowsOf(tails[i])) : i \in DOMAIN tails}
      shown == ToSet(page.items)
  IN  page.ok =>
        /\ \A a \in shown, b \in all \ shown : a.time >= b.time
        /\ TailPage(query, Reverse(tails)) = page
        /\ page.total = Cardinality(all)
        /\ Len(page.items) = page.total \/ Len(page.items) \in {query.limit, TailDefault}
        /\ fewer.ok => IsPrefix(fewer.items, page.items)
        /\ page.audited.records = Len(page.items)
        /\ \A row \in shown : row.offset \in page.audited.first .. page.audited.last
        /\ \A a, b \in all :
             a.partition = b.partition /\ a.offset < b.offset /\ a.time <= b.time /\ a \in shown => b \in shown

\* The panel of a row shows that row: the record that was asked for, or the
\* batch that covers it, and never a neighbour's payload because the log has moved
\* on; and what is in the log is found, unless it is inside a batch too damaged
\* to say how far it goes.
TheRecordAskedFor(log, asked) ==
  LET answer == One(log, asked)
      here   == asked \in log.low .. HighOf(log) - 1
      held   == IF here THEN CellAt(log, asked) ELSE "gap"
  IN  /\ answer.kind \in {"record", "bad"} => asked \in answer.first .. answer.last
      /\ answer.kind = "record" <=> held = "record"
      /\ held = "bad" \/ (held = "rest" /\ log.ends) => answer.kind = "bad"
      /\ answer.kind = "bad" => held \in {"bad", "rest"}

\* An empty window explains itself: the instant it was planned from is the one
\* that is told about, for the partitions it reads and each of them once, and it
\* is called unresolved exactly when none of them has an offset to start from.
SeekIsExplained(query, known, answers) ==
  LET plan == Opens(query)
      told == Resolve(plan, query, known, answers)
      read == IF plan.partitions = Omitted THEN known ELSE ToSet(plan.partitions)
  IN  plan.ok =>
        /\ told # Omitted =>
             /\ plan.anchor = <<"timestamp", told.timestamp>>
             /\ {told.partitions[i][1] : i \in DOMAIN told.partitions} = read
             /\ Len(told.partitions) = Cardinality(read)
             /\ told.unresolved <=> \A i \in DOMAIN told.partitions : told.partitions[i][2] = Omitted
        /\ told = Omitted <=> Requires(plan.mode) # "timestamp" \/ read = {} \/ answers = Omitted

\* The bar never goes back while the log stands still, it is full exactly when
\* the scan has nothing more to do, and a scan without an end has none.
ProgressIsHonest(progress, more, limit) ==
  LET now  == Fraction(progress, limit)
      then == Fraction([progress EXCEPT !.consumed = @ + more, !.emitted = @ + more], limit)
      spent == progress.consumed >= progress.total \/ (limit # Omitted /\ progress.emitted >= limit)
  IN  /\ now = Omitted <=> progress.total = 0
      /\ now # Omitted =>
           /\ NoFurther(now, <<1, 1>>) /\ NoFurther(now, then)
           /\ now[1] = now[2] <=> spent

(***************************************************************************)
(* Dates: the date-order setting of settings.ts, which puts the fields of  *)
(* a locale's own rendering in another order, and its clock in colons.     *)
(*                                                                         *)
(* A rendering is a sequence of parts [type, text] as Intl gives them: no  *)
(* two literals stand side by side, and date fields have one between them. *)
(* A locale writes one of the three orders: the few of ICU's that write    *)
(* year, day, month are resolved to the second (settings.ts:33-36).        *)
(***************************************************************************)
DateFields == {"day", "month", "year"}

\* DATE_FIELDS
FieldsOf(order) ==
  CASE order = "dmy" -> <<"day", "month", "year">>
    [] order = "ymd" -> <<"year", "month", "day">>
    [] order = "mdy" -> <<"month", "day", "year">>

Slots(parts) == {i \in DOMAIN parts : parts[i].type \in DateFields}

\* localeDateOrder: the order whose first field leads.
LocaleOrder(parts) ==
  LET first == parts[Min(Slots(parts))].type
  IN  CASE first = "year" -> "ymd" [] first = "month" -> "mdy" [] first = "day" -> "dmy"

\* needsColons: a clock that is separated alike, and not by a colon.
NeedsColons(parts) ==
  LET after(type) == {parts[i + 1].text : i \in {j \in 1 .. Len(parts) - 1 :
                        parts[j].type = type /\ parts[j + 1].type = "literal"}}
  IN  /\ after("hour") # {} /\ after("minute") # {}
      /\ after("hour") = after("minute") /\ after("hour") # {":"}

\* rewrite, its first half: the texts, the clock's separators replaced.
Clocked(parts, colonize) ==
  [ i \in DOMAIN parts |->
      IF colonize /\ i > 1 /\ parts[i].type = "literal" /\ parts[i - 1].type \in {"hour", "minute"}
      THEN ":" ELSE parts[i].text ]

\* The three fields stand together and are separated, not labelled.
Movable(parts, texts) ==
  LET slots == SetToSortSeq(Slots(parts), <)
  IN  /\ Len(slots) = 3
      /\ \A i \in slots[1] .. slots[3] : parts[i].type \in DateFields \cup {"literal"}
      /\ texts[slots[1] + 1] = texts[slots[2] + 1]

\* rewrite
Rewritten(parts, order, colonize) ==
  LET texts == Clocked(parts, colonize)
      slots == SetToSortSeq(Slots(parts), <)
      text(type) == texts[CHOOSE i \in Slots(parts) : parts[i].type = type]
      gap   == texts[slots[1] + 1]
      block == <<text(FieldsOf(order)[1]), gap, text(FieldsOf(order)[2]), gap, text(FieldsOf(order)[3])>>
  IN  IF ~Movable(parts, texts) THEN texts
      ELSE SubSeq(texts, 1, slots[1] - 1) \o block \o SubSeq(texts, slots[3] + 1, Len(texts))

\* write: only when something has to change.
Written(parts, order, colonize) ==
  IF order = LocaleOrder(parts) /\ ~colonize THEN [i \in DOMAIN parts |-> parts[i].text] ELSE Rewritten(parts, order, colonize)

\* A date keeps its fields: each stands in the result once, whatever is not a
\* date field stands where the locale put it but for the clock's separators,
\* fields that are separated alike are read in the order that was picked and
\* those that are labelled in the locale's own, and picking the locale's own
\* order moves nothing.
DatesKeepTheirFields(parts, order) ==
  LET colonize == NeedsColons(parts)
      written  == Written(parts, order, colonize)
      slots    == SetToSortSeq(Slots(parts), <)
      fields(texts) == [i \in DOMAIN slots |-> texts[slots[i]]]
      texts    == [i \in DOMAIN parts |-> parts[i].text]
      typeOf(text) == {parts[i].type : i \in {j \in Slots(parts) : parts[j].text = text}}
      separators == {parts[i + 1].text : i \in Slots(parts) \ {slots[Len(slots)]}}
  IN  /\ Len(written) = Len(parts)
      /\ \A i \in DOMAIN parts \ Slots(parts) : written[i] \in {texts[i], ":"}
      /\ ToSet(fields(written)) = ToSet(fields(texts))
      /\ order = LocaleOrder(parts) => fields(written) = fields(texts)
      /\ Cardinality(separators) # 1 => fields(written) = fields(texts)
      /\ (/\ Cardinality(separators) = 1 /\ Len(slots) = 3
          /\ \A i \in slots[1] .. slots[3] : parts[i].type \in DateFields \cup {"literal"})
         => \A i \in DOMAIN slots : FieldsOf(order)[i] \in typeOf(written[slots[i]])
      /\ colonize => \A i \in 2 .. Len(parts) : parts[i - 1].type \in {"hour", "minute"} => written[i] = ":"
=============================================================================
