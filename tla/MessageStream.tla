---------------------------- MODULE MessageStream ----------------------------
(***************************************************************************)
(* One message stream and the browser that reads it:                       *)
(*                                                                         *)
(*   the pump      routes/messages/stream.rs `pump` and `forward`, inside  *)
(*                 the task whose select may end it at any await;          *)
(*   the hand-off  DropOldest, one ring per connection;                    *)
(*   the writer    the SSE generator at the end of the handler;            *)
(*   the reader    web/src/features/messages/transport.ts over the         *)
(*                 browser's EventSource, feeding message-store.ts.        *)
(*                                                                         *)
(* The connection may break at any moment; the EventSource reconnects with *)
(* the last event id it saw and the server starts over with a new ring.    *)
(* kaas-lib's scan is external: it emits each partition's log in order,    *)
(* the partitions in any interleaving.  Pushes of one poll go through      *)
(* `outbox`, so that the writer runs between any two of them.              *)
(***************************************************************************)
EXTENDS DropOldest, FiniteSets, SequencesExt

CONSTANTS
  Log,             \* partition -> what each offset holds: "hit" and "miss"
                   \* are records the filter accepts or rejects, "bad" a
                   \* batch that does not decode
  Queries,         \* [mode, from, partitions, timed]
  MaxRows,         \* MAX_ROWS_PER_EVENT
  Limit,           \* the `limit` of a bounded window
  MaxConnections,  \* bound of the model: connections of one EventSource
  NoId             \* no Last-Event-ID, and no floor

Partitions == DOMAIN Log
Offsets == UNION {0 .. Len(Log[p]) : p \in Partitions}

ASSUME StreamAssumption ==
  /\ IsFiniteSet(Partitions)
  /\ \A p \in Partitions : Log[p] \in Seq({"hit", "miss", "bad"})
  /\ Queries \subseteq [mode : {"oldest", "newest", "fromOffset", "live"}, from : Nat,
                       partitions : SUBSET Partitions, timed : BOOLEAN]
  /\ MaxRows \in Nat \ {0}
  /\ Limit \in Nat
  /\ NoId \notin Nat /\ NoId # "done"

VARIABLES
  query,        \* the URL: fixed while the reader stays on the window
  conn,         \* how many connections have been opened
  resume,       \* the Last-Event-ID of this connection
  pump,         \* "starting", "resolving", "opening", "scanning", "closing", "ended"
  outbox,       \* frames the pump is pushing in this poll
  cursor,       \* partition -> the next offset the scan emits
  batch,        \* rows not flushed yet
  cut,          \* the window was cut short: select arm, or the scan failed
  owed,         \* the rows this connection's scan has read
  writing,      \* the frame the writer has taken from the ring, if any
  told,         \* reported_drops
  wire,         \* events written and not yet read
  source,       \* the EventSource: "open" or "closed"
  lastId,       \* its last event id
  rows,         \* the store's rows, in the order they were first pushed
  shown,        \* the store's `dropped`
  phase         \* the store's `phase`

pumpVars   == <<pump, outbox, cursor, batch, cut, owed>>
writerVars == <<writing, told, wire>>
readerVars == <<source, lastId, rows, shown, phase>>
fixed      == <<query, conn, resume>>
vars == <<slots, fixed, pumpVars, writerVars, readerVars>>

(***************************************************************************)
(* Frames and events                                                       *)
(***************************************************************************)
Frame(kind, body) == [kind |-> kind, body |-> body]
Rows(rs) == Frame("messages", rs)
Phase(p) == Frame("phase", p)
Failed   == Frame("error", NoId)
Progress == Frame("progress", NoId)
Resolved == Frame("resolved", NoId)
Done     == Phase("done")

\* rows.last().map(StreamRow::id)
EventId(frame) == IF frame.kind = "messages" THEN Last(frame.body) ELSE NoId

\* flush()
Flushed(rs) == IF rs = <<>> THEN <<>> ELSE <<Rows(rs)>>

Backward == query.mode = "newest"
Bounded  == query.mode # "live"

\* Mutant of ResumeFloor: the partitions of the stream are not looked at.
ResumeFloorAny(asked, id, partitions) ==
  IF id = NoId THEN asked
  ELSE IF asked = NoId \/ asked <= id[2] THEN id[2] + 1 ELSE asked

\* resume_floor(): one id can resume a stream of exactly its own partition.
\* (offset.checked_add(1) of i64::MAX is no offset of a log.)
Resumable(id, partitions) == id # NoId /\ partitions = {id[1]}

ResumeFloor(asked, id, partitions) ==
  IF ~Resumable(id, partitions) THEN asked
  ELSE IF asked = NoId \/ asked <= id[2] THEN id[2] + 1 ELSE asked

Floor == ResumeFloor(IF query.mode = "fromOffset" THEN query.from ELSE NoId,
                     resume, query.partitions)

BelowFloor(o) == Floor # NoId /\ o < Floor

Entry(p, o) == Log[p][o + 1]

Kept(p, o) == Entry(p, o) # "miss"

\* Where kaas-lib may start: the asked offset clamped into the log.  A live
\* stream starts at the end of the log, which is somewhere past what an
\* earlier connection read; the records after it are not produced yet.
Starts(p) ==
  CASE query.mode = "oldest"     -> {0}
    [] query.mode = "fromOffset" -> {IF query.from <= Len(Log[p]) THEN query.from ELSE Len(Log[p])}
    [] query.mode = "live"       -> cursor[p] .. Len(Log[p])

InWindow(p) == cursor[p] < Len(Log[p])

Read(p, o) == [cursor EXCEPT ![p] = o + 1]

\* What the reader is owed of a scan: every row it read that the filter
\* accepts, unless it lies below the offset the window was asked from.
Owes(p, o) ==
  IF Kept(p, o) /\ ~(query.mode = "fromOffset" /\ Entry(p, o) = "hit" /\ o < query.from)
  THEN owed \cup {<<p, o>>} ELSE owed

Emitted == FoldSet(LAMBDA p, n : n + cursor[p] - (CHOOSE s \in Starts(p) : TRUE), 0, query.partitions)
Spent == Bounded /\ (Emitted >= Limit \/ \A p \in query.partitions : ~InWindow(p))

(***************************************************************************)
(* The connection                                                          *)
(***************************************************************************)
StreamInit ==
  /\ query \in Queries
  /\ Fresh
  /\ conn = 1 /\ resume = NoId
  /\ pump = "starting" /\ outbox = <<>> /\ batch = <<>> /\ cut = FALSE
  /\ cursor = [p \in Partitions |-> 0]
  /\ owed = {}
  /\ writing = <<>> /\ told = 0 /\ wire = <<>>
  /\ source = "open" /\ lastId = NoId
  /\ rows = <<>> /\ shown = 0 /\ phase = NoId

(***************************************************************************)
(* The pump.  A step is what one poll does between two awaits; it runs     *)
(* only once everything the step before pushed is in the ring.             *)
(***************************************************************************)
At(pc) == pump = pc /\ outbox = <<>>

Pushes ==
  /\ outbox # <<>>
  /\ Send(Head(outbox))
  /\ outbox' = Tail(outbox)
  /\ UNCHANGED <<fixed, pump, cursor, batch, cut, owed, writerVars, readerVars>>

Says(frames) == outbox' = frames

Seek ==
  /\ At("starting")
  /\ Says(<<Phase("seeking")>>)
  /\ pump' = IF query.timed THEN "resolving" ELSE "opening"
  /\ UNCHANGED <<slots, fixed, cursor, batch, cut, owed, writerVars, readerVars>>

\* resolve() answers, or does not.
Resolve ==
  /\ At("resolving")
  /\ \E frames \in {<<>>, <<Resolved>>} : Says(frames)
  /\ pump' = "opening"
  /\ UNCHANGED <<slots, fixed, cursor, batch, cut, owed, writerVars, readerVars>>

OpenScan ==
  /\ At("opening")
  /\ ~Backward
  /\ cursor' \in {c \in [Partitions -> Offsets] : \A p \in Partitions : c[p] \in Starts(p)}
  /\ Says(<<Phase("streaming")>>)
  /\ pump' = "scanning"
  /\ UNCHANGED <<slots, fixed, batch, cut, owed, writerVars, readerVars>>

\* scan() or tail() is an error.
ReadRefused ==
  /\ At("opening")
  /\ Says(<<Failed, Done>>)
  /\ cut' = TRUE
  /\ pump' = "closing"
  /\ UNCHANGED <<slots, fixed, cursor, batch, owed, writerVars, readerVars>>

\* rows.sort_by_key(Reverse(sort_key)): later offsets first.
Newer(a, b) == a[2] > b[2] \/ (a[2] = b[2] /\ a[1] > b[1])

NewestFirst(S) ==
  {s \in [1 .. Cardinality(S) -> S] : \A i, j \in DOMAIN s : i < j => Newer(s[i], s[j])}

\* rows.chunks(MAX_ROWS_PER_EVENT), each a frame.
Chunks(rs) ==
  [i \in 1 .. (Len(rs) + MaxRows - 1) \div MaxRows |->
    Rows(SubSeq(rs, (i - 1) * MaxRows + 1, IF i * MaxRows < Len(rs) THEN i * MaxRows ELSE Len(rs)))]

\* A backward window: every kept record, newest first, cut to the limit; a
\* note for what did not decode; then the rows in chunks.
ReadTail ==
  /\ At("opening")
  /\ Backward
  /\ LET here == {r \in query.partitions \X Offsets : r[2] < Len(Log[r[1]])}
         hits == {r \in here : Entry(r[1], r[2]) = "hit"}
         note == IF \E r \in here : Entry(r[1], r[2]) = "bad" THEN <<Failed>> ELSE <<>>
     IN \E newest \in NewestFirst(hits) :
          LET window == SubSeq(newest, 1, IF Len(newest) < Limit THEN Len(newest) ELSE Limit)
          IN /\ Says(<<Phase("streaming")>> \o note \o Chunks(window) \o <<Done>>)
             /\ owed' = Range(window)
  /\ pump' = "closing"
  /\ UNCHANGED <<slots, fixed, cursor, batch, cut, writerVars, readerVars>>

\* ScanEvent::Record: the floor, then decode and filter, then the ceiling.
Record(p) ==
  LET o == cursor[p]
      grown == IF Kept(p, o) THEN Append(batch, <<p, o>>) ELSE batch
  IN /\ At("scanning") /\ p \in query.partitions /\ InWindow(p) /\ ~Spent
     /\ Entry(p, o) # "bad"
     /\ cursor' = Read(p, o)
     /\ owed' = Owes(p, o)
     /\ IF BelowFloor(o)
        THEN UNCHANGED <<batch, outbox>>
        ELSE IF Len(grown) >= MaxRows
        THEN batch' = <<>> /\ Says(Flushed(grown))
        ELSE batch' = grown /\ UNCHANGED outbox
     /\ UNCHANGED <<slots, fixed, pump, cut, writerVars, readerVars>>

\* Mutant of Malformed: the row overtakes the records read before it.
MalformedAtOnce(p) ==
  LET o == cursor[p]
  IN /\ At("scanning") /\ p \in query.partitions /\ InWindow(p) /\ ~Spent
     /\ Entry(p, o) = "bad"
     /\ cursor' = Read(p, o)
     /\ owed' = Owes(p, o)
     /\ Says(<<Rows(<<<<p, o>>>>)>>)
     /\ UNCHANGED <<slots, fixed, pump, batch, cut, writerVars, readerVars>>

\* ScanEvent::Malformed: a row whatever the floor, and no ceiling.
Malformed(p) ==
  LET o == cursor[p]
  IN /\ At("scanning") /\ p \in query.partitions /\ InWindow(p) /\ ~Spent
     /\ Entry(p, o) = "bad"
     /\ cursor' = Read(p, o)
     /\ owed' = Owes(p, o)
     /\ batch' = Append(batch, <<p, o>>)
     /\ UNCHANGED <<slots, fixed, pump, outbox, cut, writerVars, readerVars>>

\* The flush interval.  (With the reader gone the tick ends the pump too,
\* but the select's tx.closed() arm comes first.  ScanEvent::Progress is a
\* flush and a frame like any other: only the last one is modelled.)
Flush ==
  /\ At("scanning")
  /\ batch # <<>>
  /\ batch' = <<>>
  /\ Says(Flushed(batch))
  /\ UNCHANGED <<slots, fixed, pump, cursor, cut, owed, writerVars, readerVars>>

\* ScanEvent::Done, or the scan's stream ending without one.
ScanEnds ==
  /\ At("scanning")
  /\ Spent
  /\ batch' = <<>>
  /\ \E last \in {<<>>, <<Progress>>} : Says(Flushed(batch) \o last \o <<Done>>)
  /\ pump' = "closing"
  /\ UNCHANGED <<slots, fixed, cursor, cut, owed, writerVars, readerVars>>

ScanFails ==
  /\ At("scanning")
  /\ batch' = <<>>
  /\ Says(Flushed(batch) \o <<Failed, Done>>)
  /\ cut' = TRUE
  /\ pump' = "closing"
  /\ UNCHANGED <<slots, fixed, cursor, owed, writerVars, readerVars>>

Awaiting == outbox = <<>> /\ pump \in {"starting", "resolving", "opening", "scanning"}

\* Mutant of Interrupted: the arm ends the stream without saying so.
InterruptedSilently ==
  /\ Awaiting
  /\ cut' = TRUE
  /\ pump' = "closing"
  /\ UNCHANGED <<slots, fixed, outbox, cursor, batch, owed, writerVars, readerVars>>

\* The shutdown, eviction and lifetime arms: the pump's future is dropped,
\* and with it whatever it had not flushed.
Interrupted ==
  /\ Awaiting
  /\ Says(<<Done>>)
  /\ cut' = TRUE
  /\ pump' = "closing"
  /\ UNCHANGED <<slots, fixed, cursor, batch, owed, writerVars, readerVars>>

\* The task ends and drops the sender.
Close ==
  /\ At("closing")
  /\ LeaveSender
  /\ pump' = "ended"
  /\ UNCHANGED <<fixed, outbox, cursor, batch, cut, owed, writerVars, readerVars>>

Scan == (\E p \in Partitions : Record(p) \/ Malformed(p)) \/ ScanEnds \/ ScanFails

Pump ==
  \/ Pushes \/ Seek \/ Resolve \/ OpenScan \/ ReadRefused \/ ReadTail
  \/ Close

(***************************************************************************)
(* The writer.  The body is polled when the reader has room, so at most    *)
(* one frame's events are on the wire.                                     *)
(***************************************************************************)
TakeFrame ==
  /\ wire = <<>>
  /\ writing = <<>>
  /\ Take
  /\ writing' = <<Head(queue)>>
  /\ UNCHANGED <<fixed, pumpVars, told, wire, readerVars>>

DropsSaid == IF dropped # told THEN <<Frame("dropped", dropped)>> ELSE <<>>

\* rx.dropped() is read after recv has let go of the ring: a push may have
\* raised it in between.
WriteFrame ==
  /\ writing # <<>>
  /\ wire' = DropsSaid \o writing
  /\ told' = dropped
  /\ writing' = <<>>
  /\ UNCHANGED <<slots, fixed, pumpVars, readerVars>>

(***************************************************************************)
(* The reader                                                              *)
(***************************************************************************)

\* MessageStore.push, `if (seen.has(row.id)) continue`: the positions of the
\* rows not seen before, in the store or in this batch; the k-th of them; and
\* what the store then holds.
Unseen(held, rs) ==
  {i \in 1 .. Len(rs) : ~Contains(held, rs[i]) /\ \A j \in 1 .. i - 1 : rs[j] # rs[i]}

Nth(S, k) == CHOOSE i \in S : Cardinality({j \in S : j <= i}) = k

Stored(held, rs) ==
  LET new == Unseen(held, rs)
  IN  held \o [k \in 1 .. Cardinality(new) |-> rs[Nth(new, k)]]

\* One event, and what transport.ts does with it.  `done` closes the
\* EventSource, and with it the response.
ReadEvent ==
  /\ source = "open"
  /\ wire # <<>>
  /\ LET event == Head(wire)
     IN /\ lastId' = IF EventId(event) # NoId THEN EventId(event) ELSE lastId
        /\ rows' = IF event.kind = "messages" THEN Stored(rows, event.body) ELSE rows
        /\ shown' = IF event.kind = "dropped" THEN event.body ELSE shown
        /\ phase' = IF event.kind = "phase" THEN event.body ELSE phase
        /\ IF event = Done
           THEN source' = "closed" /\ LeaveReceiver
           ELSE UNCHANGED <<source, slots>>
  /\ wire' = Tail(wire)
  /\ UNCHANGED <<fixed, pumpVars, writing, told>>

\* The connection breaks and the EventSource asks again with the last id it
\* saw.  What was on the wire or in the ring is lost; the old connection's
\* task shares nothing with this one, and ending it is StreamService's
\* concern.
Reconnect ==
  /\ source = "open"
  /\ conn < MaxConnections
  /\ conn' = conn + 1
  /\ resume' = lastId
  /\ queue' = <<>> /\ dropped' = 0 /\ senderGone' = FALSE /\ receiverGone' = FALSE
  /\ pump' = "starting" /\ outbox' = <<>> /\ batch' = <<>> /\ cut' = FALSE
  /\ cursor' = IF Bounded THEN [p \in Partitions |-> 0] ELSE cursor
  /\ owed' = {}
  /\ writing' = <<>> /\ told' = 0
  /\ wire' = IF lastId # NoId THEN <<Frame("resumed", lastId)>> ELSE <<>>
  /\ UNCHANGED <<query, source, lastId, rows, shown, phase>>

StreamNext ==
  \/ Pump \/ Scan \/ Flush \/ Interrupted
  \/ TakeFrame \/ WriteFrame
  \/ ReadEvent \/ Reconnect

\* The pump's task and the body are polled while they can move, the browser
\* reads, and kaas-lib's scan gets on with it.
StreamFairness ==
  /\ WF_vars(Pump)
  /\ SF_vars(Scan)
  /\ WF_vars(TakeFrame \/ WriteFrame)
  /\ WF_vars(ReadEvent)

StreamSafety == StreamInit /\ [][StreamNext]_vars
StreamSpec   == StreamSafety /\ StreamFairness

-----------------------------------------------------------------------------
(***************************************************************************)
(* Properties                                                              *)
(***************************************************************************)

\* No record is lost in silence ("Dropped records are counted and reported",
\* stream.rs): when a window ends of its own accord and the banner shows no
\* drops, every row the last connection's scan read is in the store, over
\* any number of broken connections and whatever a resume left out.
NoSilentLoss ==
  phase = "done" /\ ~cut /\ shown = 0 => owed \subseteq Range(rows)

\* A response the server completes has told the reader `done`: otherwise
\* EventSource takes the end for a broken network and runs the window again.
ServerEndIsTold ==
  ~(AtEnd /\ writing = <<>> /\ wire = <<>> /\ source = "open")

\* A row has one place in the store, over reconnects that replay it, and a
\* forward window keeps each partition in offset order, over reconnects and
\* malformed batches, unless the banner says that rows were dropped.
RowsInOrder ==
  /\ IsInjective(rows)
  /\ ~Backward /\ shown = 0 =>
       \A i, j \in 1 .. Len(rows) :
         i < j /\ rows[i][1] = rows[j][1] => rows[i][2] < rows[j][2]

\* A bounded window comes to an end the reader sees.
WindowEnds == Bounded ~> phase = "done"

=============================================================================
