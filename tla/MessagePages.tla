---------------------------- MODULE MessagePages ----------------------------
(***************************************************************************)
(* A bounded window of a topic and its "load more":                        *)
(*                                                                         *)
(*   the server   routes/messages/mod.rs `page`: a plan (seek.rs), one     *)
(*                read forward or backward, the rows, `hasMore` and the    *)
(*                offset the next page starts at;                          *)
(*   the reader   features/messages/terminal.tsx `loadMore`, appending to  *)
(*                whatever store is current when the page arrives.         *)
(*                                                                         *)
(* The log moves on meanwhile: records are appended and retention removes  *)
(* the oldest.  A page may fail, and the reader may ask for another window *)
(* while one is on its way.  kaas-lib's scan and tail are external: a scan *)
(* emits each partition in order, the partitions in any interleaving; a    *)
(* tail walks each partition down by whole chunks, so it reads its limit   *)
(* or more.  The first window is read at once: MessageStream is about how. *)
(***************************************************************************)
EXTENDS Integers, FiniteSets, FiniteSetsExt, SequencesExt

CONSTANTS
  Log,         \* partition -> the records it ever holds, by offset:
               \* [kind, at], where "hit" and "miss" are records the filter
               \* accepts or rejects, "aborted" a hit of an aborted
               \* transaction, "bad" a batch that does not decode, "rest" an
               \* offset inside such a batch; `at` is the timestamp
  Written,     \* partition -> how much of it is there at first
  Queries,     \* [desc, from, partitions, committed]
  Limit,       \* the records one page reads
  Cap,         \* the rows a store keeps
  MaxWindows,  \* bound of the model: windows one reader opens
  MaxMoves,    \* bound of the model: offsets appended and removed
  MaxFailures, \* bound of the model: pages that fail
  Nowhere      \* no offset

Partitions == DOMAIN Log
MaxOffset  == Max({Len(Log[p]) : p \in Partitions})

Kinds == {"hit", "miss", "aborted", "bad", "rest"}

ASSUME PagesAssumption ==
  /\ IsFiniteSet(Partitions) /\ Partitions \subseteq Nat
  /\ \A p \in Partitions :
       /\ Log[p] \in Seq([kind : Kinds, at : Nat])
       /\ \A i \in DOMAIN Log[p] :
            Log[p][i].kind = "rest" => i > 1 /\ Log[p][i - 1].kind \in {"bad", "rest"}
       /\ Written[p] <= Len(Log[p])
       /\ Written[p] < Len(Log[p]) => Log[p][Written[p] + 1].kind # "rest"
  /\ Written \in [Partitions -> Nat]
  /\ Queries \subseteq [desc : BOOLEAN, from : Nat, partitions : SUBSET Partitions, committed : BOOLEAN]
  /\ Limit \in Nat \ {0} /\ Cap \in Nat \ {0}
  /\ MaxWindows \in Nat /\ MaxMoves \in Nat /\ MaxFailures \in Nat
  /\ Nowhere \notin Int

VARIABLES
  low,       \* partition -> the first offset it retains
  high,      \* partition -> its log end
  query,     \* the window on screen
  window,    \* which one it is
  phase,     \* "reading" or "done": the store's phase
  rows,      \* the store's rows, each with the window it was read for
  anchor,    \* Terminal's anchor: where the next page starts
  exhausted, \* Terminal's exhausted
  pages,     \* pages asked for and not back yet
  failures

logVars    == <<low, high>>
readerVars == <<query, window, phase, rows, anchor, exhausted>>
vars == <<logVars, readerVars, pages, failures>>

Kind(p, o) == Log[p][o + 1].kind
At(p, o)   == Log[p][o + 1].at
Id(row)    == <<row.p, row.o>>

(***************************************************************************)
(* One read: a set of ids per partition                                    *)
(***************************************************************************)
\* What a read of p may deliver an event for.
Readable(p, committed) ==
  { o \in low[p] .. high[p] - 1 :
      Kind(p, o) # "rest" /\ ~(committed /\ Kind(p, o) = "aborted") }

\* A scan clamps its start into the log: past the end it answers with the
\* last record.  A start inside a batch that does not decode answers with the
\* whole batch.
Ahead(p, q) ==
  LET base == IF q.from < Len(Log[p]) /\ Kind(p, q.from) = "rest" THEN q.from - 1 ELSE q.from
      from == IF base < high[p] THEN base ELSE high[p] - 1
  IN  {o \in Readable(p, q.committed) : o >= from}

\* A tail is anchored at an offset, which is included, and reports batches
\* that do not decode without reading them.
Behind(p, q) ==
  {o \in Readable(p, q.committed) : o <= q.from /\ Kind(p, o) # "bad"}

InReach(p, q) == IF q.desc THEN Behind(p, q) ELSE Ahead(p, q)

\* The records of a read, and how many.
Ids(read)   == UNION {{p} \X read[p] : p \in DOMAIN read}
Total(read) == Cardinality(Ids(read))

\* A scan stops at its limit or at the end of every partition.  A tail keeps
\* each partition's last chunk whole, here of up to two records.
Reads(q) ==
  LET part(p, stop) == {o \in InReach(p, q) : IF q.desc THEN o >= stop ELSE o < stop}
      most == IF q.desc THEN Limit + 1 ELSE Limit
      ends == {f \in [q.partitions -> 0 .. MaxOffset] :
                 \A p \in q.partitions : f[p] \in low[p] .. high[p]}
  IN  { read \in {[p \in q.partitions |-> part(p, stop[p])] : stop \in ends} :
          \/ Total(read) \in Limit .. most
          \/ Total(read) < Limit /\ \A p \in q.partitions : read[p] = InReach(p, q) }

(***************************************************************************)
(* The page made of a read                                                 *)
(***************************************************************************)
\* Records below the requested offset are what the clamp answered with; a
\* batch that did not decode is not held to it.
Seen(q, read) ==
  {id \in Ids(read) : q.desc \/ id[2] >= q.from \/ Kind(id[1], id[2]) = "bad"}

\* The last offset of a batch that did not decode is seen with it.
LastOf(id) ==
  IF id[2] + 1 < high[id[1]] /\ Kind(id[1], id[2] + 1) = "rest" THEN id[2] + 1 ELSE id[2]

Matches(id) == Kind(id[1], id[2]) # "miss"

\* sort_key: the timestamp, the offset, the partition.  A batch that did not
\* decode has no timestamp and comes first.
SortKey(id) == IF Kind(id[1], id[2]) = "bad" THEN <<-1, id[2], id[1]>>
               ELSE <<At(id[1], id[2]), id[2], id[1]>>

Before(a, b) ==
  LET x == SortKey(a) y == SortKey(b)
  IN  \/ x[1] < y[1]
      \/ x[1] = y[1] /\ x[2] < y[2]
      \/ x[1] = y[1] /\ x[2] = y[2] /\ x[3] < y[3]

\* What `sort_by_key` makes of them: there is one such sequence.
Sorted(q, ids) ==
  { s \in [1 .. Cardinality(ids) -> ids] :
      \A i, j \in DOMAIN s : i < j => IF q.desc THEN Before(s[j], s[i]) ELSE Before(s[i], s[j]) }

\* rows.truncate(limit)
Cut(all) == IF Len(all) > Limit THEN SubSeq(all, 1, Limit) ELSE all

\* What nothing can be read of below the lowest that was read.
Skipped(p, q, read) ==
  \E o \in low[p] .. high[p] - 1 : o <= q.from /\ \A r \in read[p] : o < r

\* more_below: whether some walk stopped above the start of its partition.  One
\* that met the limit may have stopped above offsets that cannot be read.
MoreBelow(q, read) ==
  LET left == \E p \in q.partitions : read[p] # InReach(p, q)
  IN  { more \in BOOLEAN :
          /\ left => more
          /\ more => left \/ (Total(read) >= Limit /\ \E p \in q.partitions : Skipped(p, q, read)) }

\* Mutant of NextAnchor: off the window even when the page was cut.
NextAnchorUncut(q, items, seen, cut) ==
  CASE seen = {}            -> Nowhere
    [] seen # {} /\ q.desc  -> Min({id[2] : id \in seen}) - 1
    [] seen # {} /\ ~q.desc -> Max({LastOf(id) : id \in seen}) + 1

\* Mutant of NextAnchor: off the rows, which a filter may have emptied.
NextAnchorOfRows(q, items, seen, cut) ==
  CASE items = <<>>            -> Nowhere
    [] items # <<>> /\ q.desc  -> Min({id[2] : id \in ToSet(items)}) - 1
    [] items # <<>> /\ ~q.desc -> Max({id[2] : id \in ToSet(items)}) + 1

\* next_anchor: off the window, or off the rows of a page cut to its limit.
NextAnchor(q, items, seen, cut) ==
  LET lowest  == {id[2] : id \in IF cut THEN ToSet(items) ELSE seen}
      highest == IF cut THEN lowest ELSE {LastOf(id) : id \in seen}
  IN  CASE lowest = {}            -> Nowhere
        [] lowest # {} /\ q.desc  -> Min(lowest) - 1
        [] lowest # {} /\ ~q.desc -> Max(highest) + 1

Found(q, read) == {id \in Seen(q, read) : Matches(id)}

\* page(): what the reader is told of a read whose matches are, in order, `all`,
\* and of which `below` says whether there is more.
Page(q, read, all, below) ==
  LET seen == Seen(q, read)
      cut  == Len(all) > Limit
  IN  [items |-> Cut(all),
       more  |-> IF q.desc THEN cut \/ below ELSE Cardinality(seen) >= Limit,
       next  |-> NextAnchor(q, Cut(all), seen, cut)]

(***************************************************************************)
(* The reader                                                              *)
(***************************************************************************)
\* MessageStore.push: the positions of the rows it does not have, and the
\* k-th of them.
Unseen(store, ids) == {i \in DOMAIN ids : \A j \in DOMAIN store : Id(store[j]) # ids[i]}

Nth(S, k) == CHOOSE i \in S : Cardinality({j \in S : j <= i}) = k

Row(id, w) == [p |-> id[1], o |-> id[2], window |-> w]

Joined(store, ids, w) ==
  LET new == Unseen(store, ids)
  IN  store \o [k \in 1 .. Cardinality(new) |-> Row(ids[Nth(new, k)], w)]

\* push and flush: past the cap the rows pushed first make room.
Pushed(store, ids, w) ==
  LET long == Joined(store, ids, w)
  IN  IF Len(long) > Cap THEN SubSeq(long, Len(long) - Cap + 1, Len(long)) ELSE long

Open(q) ==
  /\ window < MaxWindows
  /\ window' = window + 1 /\ query' = q
  /\ phase' = "reading" /\ rows' = <<>>
  /\ anchor' = Nowhere /\ exhausted' = FALSE
  /\ UNCHANGED <<logVars, pages, failures>>

\* The window's own stream, to its end.
StreamEnds ==
  /\ phase = "reading"
  /\ \E read \in Reads(query) : \E all \in Sorted(query, Found(query, read)) :
       rows' = Pushed(rows, Cut(all), window)
  /\ phase' = "done"
  /\ UNCHANGED <<logVars, query, window, anchor, exhausted, pages, failures>>

\* Where the next page starts: the last page's answer, else off the rows.
NextOf ==
  LET offsets == {row.o : row \in ToSet(rows)}
  IN  CASE anchor # Nowhere -> anchor
        [] anchor = Nowhere /\ offsets = {} -> Nowhere
        [] anchor = Nowhere /\ offsets # {} -> IF query.desc THEN Min(offsets) - 1 ELSE Max(offsets) + 1

\* The request carries the window's filter, partitions and codecs, and not
\* its visibility.
PageQuery(from) == [query EXCEPT !.from = from, !.committed = FALSE]

LoadMore ==
  /\ phase = "done" /\ ~exhausted
  /\ NextOf # Nowhere
  /\ \A page \in pages : page.window # window     \* loading
  /\ pages' = pages \cup {[window |-> window, query |-> PageQuery(NextOf), reply |-> Nowhere]}
  /\ UNCHANGED <<logVars, readerVars, failures>>

Reply(page) ==
  /\ page \in pages /\ page.reply = Nowhere
  /\ page.query.from >= 0                  \* else 400
  /\ \E read \in Reads(page.query) :
     \E all \in Sorted(page.query, Found(page.query, read)), below \in MoreBelow(page.query, read) :
       pages' = (pages \ {page}) \cup {[page EXCEPT !.reply = Page(page.query, read, all, below)]}
  /\ UNCHANGED <<logVars, readerVars, failures>>

\* Mutant of Arrive: a page without rows does not move the anchor.
ArriveWithRows(page) ==
  /\ page \in pages /\ page.reply # Nowhere
  /\ pages' = pages \ {page}
  /\ rows' = Pushed(rows, page.reply.items, page.window)
  /\ IF page.window = window /\ page.reply.items # <<>>
     THEN /\ anchor' = page.reply.next
          /\ exhausted' = (~page.reply.more \/ page.reply.next = Nowhere)
     ELSE UNCHANGED <<anchor, exhausted>>
  /\ UNCHANGED <<logVars, query, window, phase, failures>>

Arrive(page) ==
  /\ page \in pages /\ page.reply # Nowhere
  /\ pages' = pages \ {page}
  /\ rows' = Pushed(rows, page.reply.items, page.window)
  /\ IF page.window = window
     THEN /\ anchor' = page.reply.next
          /\ exhausted' = (~page.reply.more \/ page.reply.next = Nowhere)
     ELSE UNCHANGED <<anchor, exhausted>>
  /\ UNCHANGED <<logVars, query, window, phase, failures>>

\* The request is refused or lost: loading ends and nothing else changes.
Fail(page) ==
  /\ page \in pages
  /\ \/ page.query.from < 0 /\ failures' = failures
     \/ failures < MaxFailures /\ failures' = failures + 1
  /\ pages' = pages \ {page}
  /\ UNCHANGED <<logVars, readerVars>>

(***************************************************************************)
(* The log                                                                 *)
(***************************************************************************)
\* A batch is appended, and removed, whole.  Only the partitions the reader
\* is looking at move: another's would matter once it is read.
Whole(p, o) == o < Len(Log[p]) => Kind(p, o) # "rest"

Moved == MapThenSumSet(LAMBDA p : low[p] + high[p] - Written[p], Partitions)

Grow(p) ==
  /\ Moved < MaxMoves
  /\ p \in query.partitions
  /\ high[p] < Len(Log[p])
  /\ high' = [high EXCEPT ![p] = Min({o \in @ + 1 .. Len(Log[p]) : Whole(p, o)})]
  /\ UNCHANGED <<low, readerVars, pages, failures>>

Retain(p) ==
  /\ Moved < MaxMoves
  /\ p \in query.partitions
  /\ low[p] < high[p]
  /\ low' = [low EXCEPT ![p] = Min({o \in @ + 1 .. high[p] : Whole(p, o)})]
  /\ UNCHANGED <<high, readerVars, pages, failures>>

(***************************************************************************)
PagesInit ==
  /\ low = [p \in Partitions |-> 0]
  /\ high = Written
  /\ query \in Queries /\ window = 1
  /\ phase = "reading" /\ rows = <<>>
  /\ anchor = Nowhere /\ exhausted = FALSE
  /\ pages = {} /\ failures = 0

PagesNext ==
  \/ \E q \in Queries : Open(q)
  \/ StreamEnds \/ LoadMore
  \/ \E page \in pages : Reply(page) \/ Arrive(page) \/ Fail(page)
  \/ \E p \in Partitions : Grow(p) \/ Retain(p)

PagesSafety == PagesInit /\ [][PagesNext]_vars

\* The stream runs, the server answers and answers arrive; that the reader
\* goes on pressing "Load more" is an assumption about the reader.
PagesSpec ==
  /\ PagesSafety
  /\ WF_vars(StreamEnds \/ LoadMore \/ \E page \in pages : Reply(page) \/ Arrive(page))

(***************************************************************************)
(* What the walk promises                                                  *)
(***************************************************************************)
InOrder(p) == \A i, j \in DOMAIN Log[p] : i < j => Log[p][i].at <= Log[p][j].at

\* A backward page is cut by time, so its rows must be in the order of their
\* offsets.
Orderly(q) == q.desc => \A p \in q.partitions : InOrder(p)

\* One offset can place a page in one partition.
Walkable(q) == Orderly(q) /\ \E p \in q.partitions : q.partitions = {p}

\* No page of this window has arrived.
FirstPage == anchor = Nowhere /\ ~exhausted

\* What a window of q accepts and its reads can deliver.
Accepts(q, p, o) ==
  /\ Kind(p, o) \in (IF q.desc THEN {"hit"} ELSE {"hit", "bad"})
  /\ low[p] <= o /\ o < high[p]

\* A row another window asked for and this store was given (append pushes to
\* the store of the window on screen).
Stray(row) == row.window # window

\* No row here is, or was before the cap let it go, another window's.
OwnRows ==
  /\ \A row \in ToSet(rows) : ~Stray(row)
  /\ window = 1 \/ Len(rows) < Cap

\* The cap lets rows go in the order they were pushed.  Of a forward window
\* that is the order of their timestamps.
CutInOrder == query.desc \/ Len(rows) < Cap

\* A walk over one partition steps over nothing: what lies between two of its
\* rows and is still in the log is among the rows, whatever was filtered out,
\* cut from a page, appended or removed on the way.
NoHoles ==
  /\ Walkable(query) \/ (Orderly(query) /\ FirstPage)
  /\ OwnRows /\ CutInOrder
  => \A a, b \in ToSet(rows) : a.p = b.p =>
       \A o \in a.o .. b.o :
         Accepts(query, a.p, o) => \E row \in ToSet(rows) : Id(row) = <<a.p, o>>

\* "No further records found in this direction" is true of a walk back over
\* one partition: nothing is left below its rows.
EndIsTheEnd ==
  Walkable(query) /\ query.desc /\ exhausted /\ OwnRows =>
    \A row \in ToSet(rows) : \A o \in 0 .. row.o :
      Accepts(query, row.p, o) => \E r \in ToSet(rows) : Id(r) = <<row.p, o>>

\* A window with rows can be walked to its end, unless the walk would go on
\* below the first offset there can be: that page is refused.
WalkEnds ==
  \A w \in 1 .. MaxWindows :
    (window = w /\ phase = "done" /\ rows # <<>> /\ Walkable(query))
      ~> (window # w \/ exhausted \/ NextOf = -1)

\* No page is asked for that the server answers with 400.
NoPageRefused == \A page \in pages : page.query.from >= 0
=============================================================================
